---------------------------- MODULE DropboxSource ----------------------------
(* The route of kamelets/dropbox-source.kamelet.yaml. A timer fires it; it   *)
(* searches the folder and, for each file found, downloads it, hands it to   *)
(* the sink and deletes it by its path. Meanwhile others write to the folder *)
(* and the integration may die. Dropbox, the timer and the splitter's error  *)
(* handling are external: an error ends the work on one file, not the split. *)
EXTENDS Naturals

CONSTANTS
    Files,      \* paths in the folder that match the query
    MaxVersion  \* bound: uploads of one path

ASSUME DropboxAssumption == MaxVersion \in Nat

VARIABLES
    deleteAfterRead, \* the property of this name, of this configuration
    folder,     \* the version at each path, 0 for no file
    uploads,    \* how often each path was written
    pc,         \* the step the exchange is at
    todo,       \* paths of the search result the splitter has not reached
    file,       \* exchange property dropboxFileName
    body,       \* the version downloaded from it
    accepted,   \* the version of it the sink accepted, 0 before
    owed,       \* files there at the search that this poll has not dealt with
    consumed,   \* file versions the sink accepted
    deleted,    \* what the route deleted, and what the sink had accepted for it
    kept        \* consumed versions the route failed to delete

split   == <<todo, file, body, accepted, owed>>
history == <<consumed, deleted, kept>>
vars    == <<deleteAfterRead, folder, uploads, pc, split, history>>

Present == {f \in Files : folder[f] # 0}
Steps   == {"idle", "split", "get", "sink", "delete"}

Init ==
    /\ deleteAfterRead \in BOOLEAN
    /\ folder = [f \in Files |-> 0]
    /\ uploads = [f \in Files |-> 0]
    /\ pc = "idle"
    /\ todo = {}
    /\ file \in Files
    /\ body = 0
    /\ accepted = 0
    /\ owed = {}
    /\ consumed = {}
    /\ deleted = {}
    /\ kept = {}

-----------------------------------------------------------------------------
\* Mutant: the search is limited to one result.
SearchOne ==
    /\ pc = "idle"
    /\ todo' = IF Present = {} THEN {} ELSE {CHOOSE f \in Present : TRUE}
    /\ owed' = Present
    /\ pc' = "split"
    /\ UNCHANGED <<deleteAfterRead, folder, uploads, file, body, accepted, history>>

\* Mutant: what was consumed once is not looked at again.
SearchUnread ==
    /\ pc = "idle"
    /\ todo' = {f \in Present : <<f, folder[f]>> \notin consumed}
    /\ owed' = Present
    /\ pc' = "split"
    /\ UNCHANGED <<deleteAfterRead, folder, uploads, file, body, accepted, history>>

\* The timer fires and the search answers; one that fails ends the exchange.
Search ==
    /\ pc = "idle"
    /\ todo' = Present
    /\ owed' = Present
    /\ pc' = "split"
    /\ UNCHANGED <<deleteAfterRead, folder, uploads, file, body, accepted, history>>

\* The splitter's next part: its path becomes an exchange property.
NextFile(f) ==
    /\ pc = "split"
    /\ f \in todo
    /\ todo' = todo \ {f}
    /\ file' = f
    /\ pc' = "get"
    /\ UNCHANGED <<deleteAfterRead, folder, uploads, body, accepted, owed, history>>

SplitEnds ==
    /\ pc = "split"
    /\ todo = {}
    /\ pc' = "idle"
    /\ UNCHANGED <<deleteAfterRead, folder, uploads, split, history>>

\* Mutant: a file that is gone is handed over without a body.
GetNothing ==
    /\ pc = "get"
    /\ body' = folder[file]
    /\ pc' = "sink"
    /\ UNCHANGED <<deleteAfterRead, folder, uploads, todo, file, accepted, owed, history>>

\* Whatever is at the path now is downloaded.
Get ==
    /\ pc = "get"
    /\ folder[file] # 0
    /\ body' = folder[file]
    /\ pc' = "sink"
    /\ UNCHANGED <<deleteAfterRead, folder, uploads, todo, file, accepted, owed, history>>

\* kamelet:sink accepts the file.
Deliver ==
    /\ pc = "sink"
    /\ consumed' = consumed \cup {<<file, body>>}
    /\ accepted' = body
    /\ owed' = owed \ {file}
    /\ pc' = "delete"
    /\ UNCHANGED <<deleteAfterRead, folder, uploads, todo, file, body, deleted, kept>>

\* The deletion of what is at the path now.
Deletion == [file |-> file, version |-> folder[file], accepted |-> accepted]

\* Mutant: the choice is the wrong way round.
DeleteUnlessSet ==
    /\ pc = "delete"
    /\ IF ~deleteAfterRead /\ folder[file] # 0
       THEN /\ deleted' = deleted \cup {Deletion}
            /\ folder' = [folder EXCEPT ![file] = 0]
       ELSE UNCHANGED <<folder, deleted>>
    /\ accepted' = 0
    /\ pc' = "split"
    /\ UNCHANGED <<deleteAfterRead, uploads, todo, file, body, owed, consumed, kept>>

\* "choice: when {{deleteAfterRead}}": what is at the path by then is deleted,
\* if there still is something.
Delete ==
    /\ pc = "delete"
    /\ IF deleteAfterRead /\ folder[file] # 0
       THEN /\ deleted' = deleted \cup {Deletion}
            /\ folder' = [folder EXCEPT ![file] = 0]
       ELSE UNCHANGED <<folder, deleted>>
    /\ accepted' = 0
    /\ pc' = "split"
    /\ UNCHANGED <<deleteAfterRead, uploads, todo, file, body, owed, consumed, kept>>

\* Mutant: the steps behind a failed sink are taken all the same.
PartContinues ==
    /\ pc \in {"get", "sink", "delete"}
    /\ pc' = IF pc = "sink" THEN "delete" ELSE "split"
    /\ kept' = IF pc = "delete" THEN kept \cup {<<file, body>>} ELSE kept
    /\ accepted' = 0
    /\ owed' = owed \ {file}
    /\ UNCHANGED <<deleteAfterRead, folder, uploads, todo, file, body, consumed, deleted>>

\* Dropbox or the sink fails: the file stays, the split goes on.
PartFails ==
    /\ pc \in {"get", "sink", "delete"}
    /\ pc' = "split"
    /\ kept' = IF pc = "delete" THEN kept \cup {<<file, body>>} ELSE kept
    /\ accepted' = 0
    /\ owed' = owed \ {file}
    /\ UNCHANGED <<deleteAfterRead, folder, uploads, todo, file, body, consumed, deleted>>

\* The integration dies; the next one starts with a search.
Restart ==
    /\ pc' = "idle"
    /\ todo' = {}
    /\ body' = 0
    /\ accepted' = 0
    /\ owed' = {}
    /\ kept' = IF pc = "delete" THEN kept \cup {<<file, body>>} ELSE kept
    /\ UNCHANGED <<deleteAfterRead, folder, uploads, file, consumed, deleted>>

\* Somebody writes a file, new or not, or removes one.
Upload(f) ==
    /\ uploads[f] < MaxVersion
    /\ uploads' = [uploads EXCEPT ![f] = @ + 1]
    /\ folder' = [folder EXCEPT ![f] = uploads'[f]]
    /\ UNCHANGED <<deleteAfterRead, pc, split, history>>

Remove(f) ==
    /\ folder[f] # 0
    /\ folder' = [folder EXCEPT ![f] = 0]
    /\ UNCHANGED <<deleteAfterRead, uploads, pc, split, history>>

Route ==
    \/ Search
    \/ \E f \in Files : NextFile(f)
    \/ SplitEnds
    \/ Get
    \/ Deliver
    \/ Delete
    \/ PartFails

Next == Route \/ Restart \/ \E f \in Files : Upload(f) \/ Remove(f)

Spec == Init /\ [][Next]_vars

\* The timer fires, an exchange goes through its steps, and a download and a
\* delivery of a file that are tried again and again succeed at some time.
FairSpec ==
    /\ Spec
    /\ WF_vars(Route)
    /\ \A f \in Files :
          SF_vars(file = f /\ Get) /\ SF_vars(file = f /\ Deliver)

-----------------------------------------------------------------------------
TypeOK ==
    /\ deleteAfterRead \in BOOLEAN
    /\ folder \in [Files -> 0..MaxVersion]
    /\ uploads \in [Files -> 0..MaxVersion]
    /\ pc \in Steps
    /\ todo \subseteq Files
    /\ file \in Files
    /\ body \in 0..MaxVersion
    /\ pc \in {"sink", "delete"} => body # 0
    /\ accepted \in 0..MaxVersion
    /\ owed \subseteq Files
    /\ consumed \subseteq Files \X (1..MaxVersion)
    /\ deleted \subseteq [file : Files, version : 1..MaxVersion, accepted : 0..MaxVersion]
    /\ kept \subseteq consumed

\* A file is deleted only behind a sink that has accepted, in that very part of
\* the split, the version it deletes or the one that this replaced since the
\* download, which takes the newest (NewestThere): no failure, restart or
\* removal by others makes the route delete a file it did not hand over.
DeletedAfterConsumed ==
    \A d \in deleted :
        /\ d.accepted # 0
        /\ <<d.file, d.accepted>> \in consumed
        /\ d.accepted <= d.version

\* A version is handed over a second time only if it could not be deleted, or
\* if the integration died in between, the first time.
RepeatedOnlyIfKept ==
    deleteAfterRead /\ pc = "sink" /\ <<file, body>> \in consumed
        => <<file, body>> \in kept

\* "turning this off makes every poll re-deliver the whole folder": a poll that
\* is over has handed over every file that was there at its search, consumed
\* before or not, but for those whose own part failed (Dropbox or the sink, or
\* somebody removed the file) and unless the integration died in it; and the
\* route leaves the folder whole for the next poll.
EveryPollDelivers ==
    /\ pc = "idle" => owed = {}
    /\ ~deleteAfterRead => deleted = {}

-----------------------------------------------------------------------------
(* The inductive invariant the theorems rest on.                             *)

\* At a path is what was uploaded last, if it was not removed.
NewestThere == \A f \in Files : folder[f] \in {0, uploads[f]}

\* Versions only grow: what was downloaded is not newer than what is there.
VersionsGrow ==
    /\ NewestThere
    /\ pc \in {"sink", "delete"} =>
          body <= uploads[file] /\ (folder[file] # 0 => body <= folder[file])
    /\ \A f \in Files, v \in 1..MaxVersion : <<f, v>> \in consumed => v <= uploads[f]

DeletingConsumed ==
    pc = "delete" => accepted = body /\ <<file, body>> \in consumed

\* A poll has before it what it owes.
OwedAhead ==
    owed \subseteq todo \cup (IF pc \in {"get", "sink"} THEN {file} ELSE {})

TodoInSplit == pc = "idle" => todo = {}

\* A consumed file that still is in the folder was kept there, or is the one
\* about to be deleted.
ConsumedInFolder ==
    deleteAfterRead =>
        \A f \in Files :
            folder[f] # 0 /\ <<f, folder[f]>> \in consumed =>
                \/ <<f, folder[f]>> \in kept
                \/ pc = "delete" /\ file = f /\ body = folder[f]

IInv ==
    /\ TypeOK
    /\ VersionsGrow
    /\ DeletingConsumed
    /\ OwedAhead
    /\ TodoInSplit
    /\ DeletedAfterConsumed
    /\ ConsumedInFolder
    /\ RepeatedOnlyIfKept
    /\ EveryPollDelivers

-----------------------------------------------------------------------------
\* "Delete each file from Dropbox after it has been consumed": no other file
\* is deleted. Not so: what was uploaded to the path between the download and
\* the deletion goes unread.
OnlyConsumedDeleted == \A d \in deleted : <<d.file, d.version>> \in consumed

\* The integration stays up from some time on: no exchange ends half-way.
StaysUp ==
    <>[][pc # "idle" /\ pc' = "idle" => pc = "split" /\ todo = {}]_vars

\* A file nobody touches reaches the sink, unless the integration restarts
\* again and again.
FilesArrive ==
    StaysUp =>
        \A f \in Files, v \in 1..MaxVersion :
            folder[f] = v ~> (<<f, v>> \in consumed \/ folder[f] # v)
===========================================================================
