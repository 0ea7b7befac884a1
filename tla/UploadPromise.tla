--------------------------- MODULE UploadPromise ----------------------------
(***************************************************************************)
(* What ResourceUpload promises: whatever becomes of the requests of a     *)
(* key, its public receipt, its checkpoint and the owner's upload agree.   *)
(***************************************************************************)
VARIABLES
    kind,        \* of the key: a project's resource or a personal file
    ticket,      \* the public receipt: none, pending or an answer
    checkpoint,  \* the receipt that leads from request to request
    owner        \* the owner's upload (external)

Selected(version) == [stage |-> "selected", source |-> version]

\* However requests of a key overlap and start again, the owner gets one complete
\* command, with the version that the checkpoint has: an asset is always found
\* again, and never refused for a version that another request put
\* (application/project-resource-upload.ts:92-108).
OneSelection ==
    /\ \A v, w \in owner.asked : v = w
    /\ owner.state = "completed" => checkpoint = Selected(owner.source)

\* The stored answer is what became of the upload: a key whose asset was answered,
\* or that was answered as gone, stays so; a personal file is never given up.
AnswersTrue ==
    /\ ticket = "asset" => owner.state = "completed"
    /\ ticket \in {"gone", "conflict"} => kind = "project" /\ owner.state = "aborted"

\* However requests overlap, are lost and start again, the checkpoint, the owner's
\* upload and the stored answer agree.
UploadSound == OneSelection /\ AnswersTrue

=============================================================================
