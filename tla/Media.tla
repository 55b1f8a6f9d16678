--------------------------------- MODULE Media ---------------------------------
(***************************************************************************)
(* The media library. A file is uploaded first and recorded after, in a    *)
(* request of its own that names its storage key; an asset may also be an  *)
(* external link. Removing an asset deletes the file and then the row. A   *)
(* file that cannot be deleted stays, and the row goes all the same.       *)
(***************************************************************************)
EXTENDS Requests

CONSTANTS
  MediaKeys,  \* storage keys
  NoKey,      \* an external link
  MaxAssets   \* bound: assets ever recorded

ASSUME AssetsBound == MaxAssets \in Nat
ASSUME NoKeyAssumption == NoKey \notin MediaKeys

VARIABLES
  files,      \* the files there are, by storage key
  issued,     \* the keys that were ever given out
  assets,     \* the rows by id: key, and whether its file was there
  lastAsset,  \* the id last given out
  cutShort    \* history: assets whose removal stopped between file and row

mediaVars == <<files, issued, assets, lastAsset, cutShort>>

MediaInit ==
  /\ RequestsInit
  /\ files = {} /\ issued = {} /\ assets = <<>> /\ lastAsset = 0
  /\ cutShort = {}

\* The name of a stored file is always fresh.
StoreFile ==
  \E key \in MediaKeys \ issued :
    /\ files' = files \cup {key} /\ issued' = issued \cup {key}
    /\ UNCHANGED <<assets, lastAsset, cutShort, inFlight>>

\* Mistake: a key may be recorded twice.
nothingRecorded(key) == FALSE

recorded(key) == \E id \in DOMAIN assets : assets[id].key = key

\* That a file of that key is there is not looked at.
CreateAsset ==
  \E key \in MediaKeys \cup {NoKey} :
    /\ key # NoKey => ~recorded(key)
    /\ lastAsset < MaxAssets
    /\ lastAsset' = lastAsset + 1
    /\ assets' = Saved(assets, lastAsset',
                       [key |-> key, filed |-> key \in files])
    /\ UNCHANGED <<files, issued, cutShort, inFlight>>

AskRemoveAsset(r) ==
  \E id \in DOMAIN assets :
    /\ Begin(r, [step |-> IF assets[id].key = NoKey THEN "row" ELSE "unlink",
                 id |-> id, key |-> assets[id].key])
    /\ UNCHANGED mediaVars

Unlink(r) ==
  /\ At(r, "unlink")
  /\ files' \in {files, files \ {job[r].key}}
  /\ Proceed(r, [step |-> "row"], job[r].id \notin DOMAIN assets)
  /\ UNCHANGED <<issued, assets, lastAsset, cutShort>>

DeleteAsset(r) ==
  LET id == job[r].id
  IN  /\ At(r, "row") /\ id \in DOMAIN assets
      /\ assets' = Removed(assets, id)
      /\ End(r)
      /\ UNCHANGED <<files, issued, lastAsset, cutShort>>

AbandonMedia(r) ==
  /\ Interrupt(r)
  /\ cutShort' = IF At(r, "row") THEN cutShort \cup {job[r].id} ELSE cutShort
  /\ UNCHANGED <<files, issued, assets, lastAsset>>

\* What streamDocument can send: "Row exists, bytes don't" is its 404. No file
\* has the key of an external link.
streamDocument(id) == assets[id].key \in files

MediaNext ==
  \/ StoreFile \/ CreateAsset
  \/ \E r \in Requests :
       AskRemoveAsset(r) \/ Unlink(r) \/ DeleteAsset(r) \/ AbandonMedia(r)

MediaSpec == MediaInit /\ [][MediaNext]_<<mediaVars, inFlight>>

-----------------------------------------------------------------------------

MediaTypeOK ==
  /\ files \subseteq issued /\ issued \subseteq MediaKeys
  /\ lastAsset \in 0..MaxAssets
  /\ DOMAIN assets \subseteq 1..lastAsset
  /\ \A id \in DOMAIN assets :
       /\ assets[id].key \in MediaKeys \cup {NoKey}
       /\ assets[id].filed \in BOOLEAN

\* An asset recorded with its file can be streamed, but for what becomes of it
\* by its own removal, under way or stopped, or by one that was late for an
\* asset already removed.
MediaHasItsFile ==
  ~overtaken =>
    \A id \in DOMAIN assets \ cutShort :
      (assets[id].filed /\ \A r \in Requests : At(r, "row") => job[r].id # id)
        => streamDocument(id)
===============================================================================
