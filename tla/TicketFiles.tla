----------------------------- MODULE TicketFiles -----------------------------
(***************************************************************************)
(* The files of a ticket and of its comments: rows in the database, bytes  *)
(* in a storage no transaction covers. One person writes comments on the   *)
(* ticket, uploading files for each and sending it with them; others       *)
(* delete comments, trash the ticket, restore it and purge it. A request   *)
(* is a task of several steps -- what it read, what it commits, what it    *)
(* does to the storage afterwards -- and a crash ends them all.            *)
(*                                                                         *)
(* A file stands for one upload under a fresh key, so it is never used     *)
(* twice. Not in the code are `excused`, the files whose bytes a crash, a  *)
(* storage that refuses or an unanswered commit may have left in the wrong *)
(* state, and `discarded`, those deleted from the ticket's own list.       *)
(***************************************************************************)
EXTENDS Naturals, FiniteSets

CONSTANTS Files,     \* uploads, each under its own storage key
          Comments,  \* comments that may be posted on the ticket
          Tasks,     \* requests in flight at once
          MaxAsked,  \* bound: requests
          MaxFaults  \* bound: crashes, storage failures, unanswered commits

ASSUME FilesAssumption ==
    /\ MaxAsked \in Nat /\ MaxFaults \in Nat
    /\ Comments \cap {"unused", "none", "loose"} = {}
    /\ \A k \in Comments : k # "no comment"

VARIABLES ticket,   \* "live", "trashed", or "gone" for good
          row,      \* of each file: no row yet or any more, claimed by none, by a comment
          bytes,    \* the files the storage holds
          comment,  \* the state of each comment
          named,    \* of each comment, the files it was sent with
          draft,    \* the files of the comment being written
          task,     \* the requests
          excused, discarded,
          asked, faults

filesVars ==
    <<ticket, row, bytes, comment, named, draft, task, excused, discarded, asked, faults>>

NoComment == "no comment"
Idle == [at |-> "idle", kind |-> "upload", files |-> {}, comment |-> NoComment, seen |-> {}]

HasRow(f) == row[f] \notin {"unused", "none"}
Posted    == {k \in Comments : comment[k] = "posted"}
RowsOf(k) == {f \in Files : row[f] = k}

FilesInit ==
    /\ ticket = "live" /\ row = [f \in Files |-> "unused"] /\ bytes = {}
    /\ comment = [k \in Comments |-> "unwritten"] /\ named = [k \in Comments |-> {}]
    /\ draft = {} /\ task = [t \in Tasks |-> Idle] /\ excused = {}
    /\ discarded = {} /\ asked = 0 /\ faults = 0

Ask(t, kind, files, k) ==
    /\ task[t].at = "idle" /\ ticket # "gone" /\ asked < MaxAsked /\ asked' = asked + 1
    /\ task' = [task EXCEPT ![t] = [at |-> "sent", kind |-> kind, files |-> files,
                                    comment |-> k, seen |-> {}]]
Read(t, files, seen) ==
    task' = [task EXCEPT ![t] = [at |-> "read", kind |-> task[t].kind, files |-> files,
                                 comment |-> task[t].comment, seen |-> seen]]
Step(t, at)    == task' = [task EXCEPT ![t].at = at]
End(t)         == task' = [task EXCEPT ![t] = Idle]
Is(t, kind, at) == task[t].kind = kind /\ task[t].at = at

-----------------------------------------------------------------------------
(* What people ask for. *)

(* A file is picked for the comment being written.                         *)
PickFile(t, f) ==
    /\ row[f] = "unused" /\ Ask(t, "upload", {f}, NoComment)
    /\ row' = [row EXCEPT ![f] = "none"]
    /\ UNCHANGED <<ticket, bytes, comment, named, draft, excused, discarded, faults>>

(* The comment is sent with the files of the draft. The button waits for   *)
(* uploads and for a send under way; the key that sends does not.          *)
Send(t, k) ==
    /\ comment[k] = "unwritten" /\ Ask(t, "post", draft, k)
    /\ comment' = [comment EXCEPT ![k] = "sent"]
    /\ named' = [named EXCEPT ![k] = draft]
    /\ UNCHANGED <<ticket, row, bytes, draft, excused, discarded, faults>>

(* A file is taken back out of the draft.                                  *)
TakeBack(t, f) ==
    /\ f \in draft /\ Ask(t, "remove", {f}, NoComment)
    /\ UNCHANGED <<ticket, row, bytes, comment, named, draft, excused, discarded, faults>>

(* A file no comment has claimed is listed among the ticket's own, one of  *)
(* a comment being written too, and may be deleted there.                  *)
DiscardListed(t, f) ==
    /\ row[f] = "loose" /\ Ask(t, "discard", {f}, NoComment)
    /\ UNCHANGED <<ticket, row, bytes, comment, named, draft, excused, discarded, faults>>

(* A comment is deleted, by its author or an admin.                        *)
DeleteComment(t, k) ==
    /\ comment[k] = "posted" /\ Ask(t, "delete", {}, k)
    /\ UNCHANGED <<ticket, row, bytes, comment, named, draft, excused, discarded, faults>>

TrashTicket ==
    /\ ticket = "live" /\ ticket' = "trashed"
    /\ UNCHANGED <<row, bytes, comment, named, draft, task, excused, discarded, asked, faults>>

RestoreTicket ==
    /\ ticket = "trashed" /\ ticket' = "live"
    /\ UNCHANGED <<row, bytes, comment, named, draft, task, excused, discarded, asked, faults>>

(* Delete forever, or thirty days later.                                   *)
PurgeTicket(t) ==
    /\ ticket = "trashed" /\ Ask(t, "purge", {}, NoComment)
    /\ UNCHANGED <<ticket, row, bytes, comment, named, draft, excused, discarded, faults>>

-----------------------------------------------------------------------------
(* The upload: bytes first, then the row. *)

StoreBytes(t) ==
    /\ Is(t, "upload", "sent") /\ ticket = "live"
    /\ bytes' = bytes \cup task[t].files
    /\ Step(t, "stored")
    /\ UNCHANGED <<ticket, row, comment, named, draft, excused, discarded, asked, faults>>

(* The row, unless the ticket it hangs on has been purged meanwhile.       *)
InsertRow(t) ==
    /\ Is(t, "upload", "stored") /\ ticket # "gone"
    /\ row' = [f \in Files |-> IF f \in task[t].files THEN "loose" ELSE row[f]]
    /\ Step(t, "answer")
    /\ UNCHANGED <<ticket, bytes, comment, named, draft, excused, discarded, asked, faults>>

(* A commit that fails -- no ticket to hang on any more, no database --    *)
(* takes its bytes back.                                                   *)
TakeBytesBack(t) ==
    /\ Is(t, "upload", "stored")
    /\ bytes' = bytes \ task[t].files
    /\ End(t)
    /\ UNCHANGED <<ticket, row, comment, named, draft, excused, discarded, asked, faults>>

(* The commit happens and its answer is lost: it is taken for a failure.   *)
CommitUnanswered(t) ==
    /\ Is(t, "upload", "stored") /\ ticket # "gone" /\ faults < MaxFaults
    /\ row' = [f \in Files |-> IF f \in task[t].files THEN "loose" ELSE row[f]]
    /\ bytes' = bytes \ task[t].files
    /\ End(t)
    /\ excused' = excused \cup task[t].files /\ faults' = faults + 1
    /\ UNCHANGED <<ticket, comment, named, draft, asked, discarded>>

(* uploadForComment: remembered, to be claimed when the comment is sent.   *)
Uploaded(t) ==
    /\ Is(t, "upload", "answer")
    /\ draft' = draft \cup task[t].files
    /\ End(t)
    /\ UNCHANGED <<ticket, row, bytes, comment, named, excused, discarded, asked, faults>>

-----------------------------------------------------------------------------
(* The comment. *)

\* Mutant: a file some comment has already is claimed all the same.
FindAny(t) ==
    /\ Is(t, "post", "sent") /\ ticket = "live"
    /\ \A f \in task[t].files : HasRow(f)
    /\ Read(t, task[t].files, Posted)
    /\ UNCHANGED <<ticket, row, bytes, comment, named, draft, excused, discarded, asked, faults>>

(* claim_for_comment finds every file it names unclaimed ...               *)
FindUnclaimed(t) ==
    /\ Is(t, "post", "sent") /\ ticket = "live"
    /\ \A f \in task[t].files : row[f] = "loose"
    /\ Read(t, task[t].files, Posted)
    /\ UNCHANGED <<ticket, row, bytes, comment, named, draft, excused, discarded, asked, faults>>

(* ... and commits them with the comment, whoever has claimed them since.  *)
PostComment(t) ==
    /\ Is(t, "post", "read") /\ ticket # "gone"
    /\ \A f \in task[t].files : HasRow(f)
    /\ comment' = [comment EXCEPT ![task[t].comment] = "posted"]
    /\ row' = [f \in Files |-> IF f \in task[t].files THEN task[t].comment ELSE row[f]]
    /\ Step(t, "answer")
    /\ UNCHANGED <<ticket, bytes, named, draft, excused, discarded, asked, faults>>

(* The box is emptied, and with it whatever has landed there meanwhile.    *)
CommentSent(t) ==
    /\ Is(t, "post", "answer")
    /\ draft' = {}
    /\ End(t)
    /\ UNCHANGED <<ticket, row, bytes, comment, named, excused, discarded, asked, faults>>

-----------------------------------------------------------------------------
(* Deleting: rows first, bytes after the commit. *)

(* What is to go with the file, the comment or the ticket.                 *)
Doomed(t) ==
    CASE task[t].kind \in {"remove", "discard"} -> task[t].files
      [] task[t].kind = "delete" -> RowsOf(task[t].comment)
      [] OTHER -> {f \in Files : HasRow(f)}

ReadDoomed(t) ==
    /\ task[t].at = "sent" /\ task[t].kind \in {"remove", "discard", "delete", "purge"}
    /\ ticket = IF task[t].kind = "purge" THEN "trashed" ELSE "live"
    /\ \A f \in task[t].files : HasRow(f)
    /\ Read(t, Doomed(t), IF task[t].kind = "purge" THEN Posted ELSE {})
    /\ UNCHANGED <<ticket, row, bytes, comment, named, draft, excused, discarded, asked, faults>>

WithoutRows(t) == [f \in Files |-> IF f \in task[t].files THEN "none" ELSE row[f]]

\* Mutant: the bytes go before the commit, which may not come.
RemoveRowLast(t) ==
    /\ Is(t, "remove", "read") \/ Is(t, "discard", "read")
    /\ bytes' = bytes \ task[t].files
    /\ Step(t, "purge")
    /\ UNCHANGED <<ticket, row, comment, named, draft, excused, discarded, asked, faults>>

RemoveRow(t) ==
    /\ Is(t, "remove", "read") \/ Is(t, "discard", "read")
    /\ row' = WithoutRows(t)
    /\ discarded' = IF task[t].kind = "discard" THEN discarded \cup task[t].files ELSE discarded
    /\ Step(t, "purge")
    /\ UNCHANGED <<ticket, bytes, comment, named, draft, excused, asked, faults>>

(* A file or comment that was not read still points at what is deleted:    *)
(* its foreign key refuses the whole.                                      *)
RemoveComment(t) ==
    /\ Is(t, "delete", "read") /\ RowsOf(task[t].comment) \subseteq task[t].files
    /\ row' = WithoutRows(t)
    /\ comment' = [comment EXCEPT ![task[t].comment] = "deleted"]
    /\ Step(t, "purge")
    /\ UNCHANGED <<ticket, bytes, named, draft, excused, discarded, asked, faults>>

\* Mutant: the comments are left to a cascade that is not there.
RemoveTicketAlone(t) ==
    /\ Is(t, "purge", "read") /\ \A f \in Files : HasRow(f) => f \in task[t].files
    /\ ticket' = "gone" /\ row' = WithoutRows(t)
    /\ Step(t, "purge")
    /\ UNCHANGED <<bytes, comment, named, draft, excused, discarded, asked, faults>>

RemoveTicket(t) ==
    /\ Is(t, "purge", "read") /\ Posted \subseteq task[t].seen
    /\ \A f \in Files : HasRow(f) => f \in task[t].files
    /\ ticket' = "gone" /\ row' = WithoutRows(t)
    /\ comment' = [k \in Comments |-> IF k \in Posted THEN "deleted" ELSE comment[k]]
    /\ Step(t, "purge")
    /\ UNCHANGED <<bytes, named, draft, excused, discarded, asked, faults>>

(* Only who takes a file back does something with the answer.              *)
Purged(t) == IF task[t].kind = "remove" THEN Step(t, "answer") ELSE End(t)

(* purge: the bytes whose rows are gone.                                   *)
PurgeBytes(t) ==
    /\ task[t].at = "purge"
    /\ bytes' = bytes \ task[t].files
    /\ Purged(t)
    /\ UNCHANGED <<ticket, row, comment, named, draft, excused, discarded, asked, faults>>

(* The storage refuses. Of a delete that is logged, and it has succeeded   *)
(* all the same; of a failed upload it is one more error.                  *)
PurgeFails(t) ==
    /\ task[t].at = "purge" \/ Is(t, "upload", "stored")
    /\ faults < MaxFaults
    /\ Purged(t)
    /\ excused' = excused \cup task[t].files /\ faults' = faults + 1
    /\ UNCHANGED <<ticket, row, bytes, comment, named, draft, asked, discarded>>

\* Mutant: a file taken back stays in the draft.
TakenBackOnly(t) ==
    /\ Is(t, "remove", "answer")
    /\ End(t)
    /\ UNCHANGED <<ticket, row, bytes, comment, named, draft, excused, discarded, asked, faults>>

TakenBack(t) ==
    /\ Is(t, "remove", "answer")
    /\ draft' = draft \ task[t].files
    /\ End(t)
    /\ UNCHANGED <<ticket, row, bytes, comment, named, excused, discarded, asked, faults>>

-----------------------------------------------------------------------------
(* Refused: not found, not attachable, a foreign key, a row gone since it  *)
(* was read, no database. Nothing is written, and the draft stays.         *)
Refused(t) ==
    /\ task[t].at \in {"sent", "read"}
    /\ End(t)
    /\ UNCHANGED <<ticket, row, bytes, comment, named, draft, excused, discarded, asked, faults>>

(* The server goes down in the middle of everything.                       *)
Crash ==
    /\ faults < MaxFaults /\ \E t \in Tasks : task[t].at # "idle"
    /\ task' = [t \in Tasks |-> Idle]
    /\ excused' = excused \cup UNION {task[t].files : t \in Tasks}
    /\ faults' = faults + 1
    /\ UNCHANGED <<ticket, row, bytes, comment, named, draft, asked, discarded>>

FilesNext ==
    \/ TrashTicket \/ RestoreTicket \/ Crash
    \/ \E t \in Tasks :
        \/ \E f \in Files : PickFile(t, f) \/ TakeBack(t, f) \/ DiscardListed(t, f)
        \/ \E k \in Comments : Send(t, k) \/ DeleteComment(t, k)
        \/ PurgeTicket(t)
        \/ StoreBytes(t) \/ InsertRow(t) \/ TakeBytesBack(t) \/ CommitUnanswered(t) \/ Uploaded(t)
        \/ FindUnclaimed(t) \/ PostComment(t) \/ CommentSent(t)
        \/ ReadDoomed(t) \/ RemoveRow(t) \/ RemoveComment(t) \/ RemoveTicket(t)
        \/ PurgeBytes(t) \/ PurgeFails(t) \/ TakenBack(t)
        \/ Refused(t)

FilesSpec == FilesInit /\ [][FilesNext]_filesVars

-----------------------------------------------------------------------------
TaskType == [at : {"idle", "sent", "stored", "read", "purge", "answer"},
             kind : {"upload", "post", "remove", "discard", "delete", "purge"},
             files : SUBSET Files, comment : Comments \cup {NoComment},
             seen : SUBSET Comments]

FilesTypeOK ==
    /\ ticket \in {"live", "trashed", "gone"}
    /\ row \in [Files -> {"unused", "none", "loose"} \cup Comments]
    /\ bytes \subseteq Files /\ draft \subseteq Files /\ excused \subseteq Files
    /\ discarded \subseteq Files
    /\ comment \in [Comments -> {"unwritten", "sent", "posted", "deleted"}]
    /\ named \in [Comments -> SUBSET Files]
    /\ task \in [Tasks -> TaskType]
    /\ \A t \in Tasks : task[t].kind \in {"post", "delete"} => task[t].comment \in Comments
    /\ asked \in Nat /\ faults \in Nat

(* "A row promising a file that was never written is the one failure that  *)
(* shows up as a broken image": every row has its bytes, whatever is       *)
(* deleted meanwhile, unless the commit of its own upload was taken for a  *)
(* failure. (attachments.py)                                               *)
RowHasBytes == \A f \in Files : HasRow(f) => f \in bytes \/ f \in excused

(* Nothing is left in the storage but what a row names or a request is     *)
(* about to add or remove, unless a crash or the storage itself came in    *)
(* between. (attachments.py)                                               *)
NoStrayBytes ==
    \A f \in bytes : HasRow(f) \/ f \in excused \/ \E t \in Tasks : f \in task[t].files

(* The database and the storage agree, with no transaction around both.    *)
(* (attachments.py)                                                        *)
RowsAndBytes == RowHasBytes /\ NoStrayBytes

(* "A comment cannot adopt a file out of someone else's": a file moves     *)
(* from one comment to another only if that one was posted after this      *)
(* one's request had looked. (attachments.py)                              *)
AdoptsOnlyInARace ==
    [][\A t \in Tasks : PostComment(t) =>
        \A f \in task[t].files : row[f] \in Comments => row[f] \notin task[t].seen]_filesVars

(* A comment is posted with all of its files or not at all: each file it   *)
(* was sent with is in it, or deleted, or in another sent with it too.     *)
(* (comments.py, attachments.py)                                           *)
CommentIsWhole ==
    \A k \in Posted : \A f \in named[k] :
        row[f] = "none" \/ \E j \in Posted : row[f] = j /\ f \in named[j]

(* A ticket that is gone leaves no comment and no file behind.             *)
(* (tickets.py, deleting.py)                                               *)
NothingOutlivesTheTicket == ticket = "gone" => Posted = {} /\ \A f \in Files : ~HasRow(f)

(* Comments and their files come and go together. (comments.py,            *)
(* attachments.py, tickets.py)                                             *)
CommentsKeepFiles == FilesTypeOK /\ CommentIsWhole /\ NothingOutlivesTheTicket

(* When everything asked for has been answered, the files of the draft are *)
(* ones that a comment can still claim: the box is never left with a file  *)
(* the server refuses but one that was deleted from the ticket's list,     *)
(* which does not know of drafts. (CommentsSection.tsx, attachments.py)    *)
DraftCanBeSent ==
    ticket = "live" /\ faults = 0 /\ (\A t \in Tasks : task[t].at = "idle") =>
        \A f \in draft : row[f] = "loose" \/ f \in discarded

=============================================================================
