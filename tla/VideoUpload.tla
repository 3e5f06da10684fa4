----------------------------- MODULE VideoUpload -----------------------------
(***************************************************************************)
(* The upload of ChunkedUpload with constants and variables of its own, so *)
(* that it can stand beside MediaDelivery, whose Uploads are such videos   *)
(* once they are assembled: MediaDeliveryProofs is about both.             *)
(***************************************************************************)
CONSTANTS UploadRequests, TotalChunks, LastChunks, MayBeTooLarge, UploadFaults, NoUpload

VARIABLES upload, disk, assembled, sent, docs, ureq, ufaults

U == INSTANCE ChunkedUpload
        WITH Requests <- UploadRequests, MaxFaults <- UploadFaults, None <- NoUpload,
             req <- ureq, faults <- ufaults

ASSUME UploadAssumption == U!ChunksAssumption

UploadSpec == U!Spec
FairUploadSpec == U!FairSpec

-----------------------------------------------------------------------------
\* The inductive invariant of the upload, for a client that waits for its
\* answers; received chunks are kept (ReceivedIsKept), and more.
UploadInvariant == U!IInv

\* "Backend reassembles to full file, then re-chunks to 256KB for Kafka":
\* a video that is sent holds every chunk.
FullVideoSent == U!FullVideoSent

\* One upload, one document.
OneDocument == U!OneDocument

\* A complete upload for an application comes to its document, unless the
\* session has expired.
CompleteIsRecorded == U!CompleteIsRecorded
=============================================================================
