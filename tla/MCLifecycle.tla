----------------------------- MODULE MCLifecycle -----------------------------
(* Four calls of run(): two share a dedupe key, as folder-change does, one  *)
(* has another key and one has none; and one call of close().               *)
EXTENDS Lifecycle, TLC

CONSTANTS folder1, folder2, removal, crash, quit, folderKey, removalKey

MCRequests == {folder1, folder2, removal, crash}
MCKeys == {folderKey, removalKey}
MCKeyOf == folder1 :> folderKey @@ folder2 :> folderKey
           @@ removal :> removalKey @@ crash :> NoKey
==============================================================================
