------------------------------ MODULE FileSync ------------------------------
(***************************************************************************)
(* The sync service, file_sync_service.c: a thread per stream that answers *)
(* STAT, LIST, SEND and RECV requests until the stream ends.               *)
(*                                                                         *)
(* The threads share nothing but the file system, and meet there: two      *)
(* hosts may push to one path, pull what is being pushed, or list while    *)
(* files go away.  So a thread's steps are its calls of the file system.   *)
(* A file is the sequence of the pushes that wrote its chunks; the host is *)
(* what the thread may read next from the stream.                          *)
(***************************************************************************)
EXTENDS Integers, Sequences, FiniteSets, SequencesExt

CONSTANTS
  Sessions,  \* sync streams
  Paths,     \* the names in the one directory that is listed
  Pinned,    \* paths of files that cannot be unlinked, such as mount points
  None,      \* no file, no inode
  MaxPush,   \* bound: SEND requests
  MaxChunks  \* bound: DATA messages of a push

Pushes == 1..MaxPush
\* A file is known by the push that created it, or by the path it had before.
Inodes == Pushes \cup Paths
\* What a path may name.
File(i) == [file |-> i]
Link(p) == [to |-> p]
Files == {File(i) : i \in Inodes}
Links == {Link(p) : p \in Paths}

ASSUME FileSyncAssumption ==
  /\ Pinned \subseteq Paths /\ IsFiniteSet(Paths)
  /\ MaxPush \in Nat /\ MaxChunks \in Nat
  /\ Paths \cap Pushes = {}
  /\ None \notin Inodes /\ None \notin Files \cup Links

VARIABLES
  ses,     \* the threads' local variables, by stream
  dir,     \* what each path names: a file, a link or nothing
  parent,  \* the paths whose parent directory exists
  data,    \* the contents of each file
  time,    \* who set the modification time of each file last
  push,    \* history: the SEND requests
  pushes,  \* how many there were
  writers  \* history: the pushes that opened each file

fsVars == <<dir, parent, data, time>>
histVars == <<push, pushes, writers>>
vars == <<ses, fsVars, histVars>>

States == {"request", "open", "mkdirs", "open2", "exists", "data", "linkdata",
           "symlink", "linkmkdirs", "symlink2", "linkdone", "recv", "list", "done"}

TypeOK ==
  /\ ses \in [Sessions -> [pc : States, path : Paths \cup {None}, u : {0} \cup Pushes,
                           to : Paths \cup {None}, ans : {<<>>, <<"OK">>, <<"FAIL">>},
                           phase : {"idle", "data"}, fd : Inodes \cup {None},
                           got : Seq(Inodes), todo : SUBSET Paths, sent : SUBSET Paths,
                           stay : SUBSET Paths, gone : BOOLEAN]]
  /\ dir \in [Paths -> Files \cup Links \cup {None}]
  /\ parent \subseteq Paths
  /\ data \in [Inodes -> Seq(Inodes)]
  /\ time \in [Inodes -> {0} \cup Pushes]
  /\ push \in [Pushes -> [path : Paths \cup {None}, sent : 0..MaxChunks, file : Inodes \cup {None},
                          state : {"none", "active", "okay", "failed", "left"}, rival : BOOLEAN]]
  /\ pushes \in 0..MaxPush
  /\ writers \in [Inodes -> SUBSET Pushes]

Fresh == [pc |-> "request", path |-> None, u |-> 0, to |-> None, ans |-> <<"OK">>,
          phase |-> "idle", fd |-> None, got |-> <<>>, todo |-> {}, sent |-> {},
          stay |-> {}, gone |-> FALSE]
Over == [Fresh EXCEPT !.pc = "done"]

Init ==
  /\ ses = [s \in Sessions |-> Over]
  /\ \E there \in SUBSET Paths :
       /\ Pinned \subseteq there
       /\ dir = [p \in Paths |-> IF p \in there THEN File(p) ELSE None]
       /\ parent \in {P \in SUBSET Paths : there \subseteq P}
  /\ data = [i \in Inodes |-> IF i \in Paths THEN [k \in 1..MaxChunks |-> i] ELSE <<>>]
  /\ time = [i \in Inodes |-> 0]
  /\ push = [u \in Pushes |-> [path |-> None, sent |-> 0, file |-> None, state |-> "none",
                               rival |-> FALSE]]
  /\ pushes = 0
  /\ writers = [i \in Inodes |-> {}]

-----------------------------------------------------------------------------
(* The file system.                                                        *)

\* The file that opening p without O_EXCL finds: links are followed.
Resolve(p) ==
  LET follow[n \in 0..Cardinality(Paths)] ==
        LET e == IF n = 0 THEN Link(p) ELSE follow[n - 1]
        IN  IF e \in Links THEN dir[e.to] ELSE e
      e == follow[Cardinality(Paths)]
  IN  IF e \in Files THEN e.file ELSE None

Unlinked(p) == IF p \in Pinned THEN dir ELSE [dir EXCEPT ![p] = None]

\* A chunk of push u, at position k + 1.
Written(d, k, u) == IF k < Len(d) THEN [d EXCEPT ![k + 1] = u] ELSE Append(d, u)

-----------------------------------------------------------------------------
(* The thread.  Its record becomes r; the listings of the others note what *)
(* is gone.                                                                *)

Set(s, r) ==
  ses' = [x \in Sessions |-> IF x = s THEN r
            ELSE [ses[x] EXCEPT !.stay = {p \in @ : dir'[p] # None}]]

\* An answer is written; when the stream is gone that fails and the thread ends.
Answer(r, a) == IF r.gone THEN Over ELSE [r EXCEPT !.ans = Append(@, a)]

\* Back to the loop of file_sync_service.
Return(r) ==
  IF r.pc = "done" THEN r
  ELSE [Fresh EXCEPT !.ans = r.ans, !.phase = r.phase, !.gone = r.gone]

Goto(r, l) == IF r.pc = "done" THEN r ELSE [r EXCEPT !.pc = l]

PushIs(u, st) == push' = [push EXCEPT ![u].state = st]

\* A stream is opened for the service.
file_sync_service(s) ==
  /\ ses[s].pc = "done"
  /\ UNCHANGED <<fsVars, histVars>>
  /\ Set(s, Fresh)

\* The stream is closed: what it still holds can be read, nothing written.
stream_closed(s) ==
  /\ ses[s].pc # "done" /\ ~ses[s].gone
  /\ UNCHANGED <<fsVars, histVars>>
  /\ Set(s, [ses[s] EXCEPT !.gone = TRUE])

Requested(s) == ses[s].pc = "request" /\ ses[s].phase = "idle"

\* QUIT, an unknown command, a bad length, a stream that ends: the thread ends.
end_session(s) ==
  /\ ses[s].pc = "request"
  /\ UNCHANGED <<fsVars, histVars>>
  /\ Set(s, Over)

do_stat(s) ==
  /\ Requested(s)
  /\ UNCHANGED <<fsVars, histVars>>
  /\ Set(s, Return(Answer([ses[s] EXCEPT !.ans = <<>>], "OK")))

-----------------------------------------------------------------------------
(* LIST.                                                                   *)

\* opendir; when it fails there is nothing to list.
do_list(s) ==
  /\ Requested(s)
  /\ UNCHANGED <<fsVars, histVars>>
  /\ LET names == {p \in Paths : dir[p] # None}
         r == [ses[s] EXCEPT !.ans = <<>>, !.pc = "list", !.todo = names, !.stay = names]
     IN  \/ Set(s, r)
         \/ Set(s, Return(Answer(r, "OK")))

\* Mutant: a name that is gone ends the listing.
left_to_list_Stops(todo, p) == IF dir[p] = None THEN {} ELSE todo \ {p}

\* What readdir still has after p: a failed lstat only skips p.
left_to_list(todo, p) == todo \ {p}

\* readdir and lstat.  A failed write leaves the directory open.
list_entry(s) ==
  /\ ses[s].pc = "list"
  /\ UNCHANGED <<fsVars, histVars>>
  /\ \E p \in ses[s].todo :
       Set(s, IF ses[s].gone /\ dir[p] # None THEN Over
              ELSE [ses[s] EXCEPT !.todo = left_to_list(@, p),
                                  !.sent = IF dir[p] # None THEN @ \cup {p} ELSE @])

list_done(s) ==
  /\ ses[s].pc = "list" /\ ses[s].todo = {}
  /\ UNCHANGED <<fsVars, histVars>>
  /\ Set(s, Return(Answer(ses[s], "OK")))

-----------------------------------------------------------------------------
(* SEND.                                                                   *)

\* Mutant: the old file is not removed first.
removed_first_Not(p) == dir

\* adb_unlink(path), whatever it returns.
removed_first(p) == Unlinked(p)

\* do_send: whoever pushes to the path as well is a rival from now on, and so
\* is a push that has failed but whose data is still being read.
do_send(s) ==
  /\ Requested(s) /\ pushes < MaxPush
  /\ pushes' = pushes + 1
  /\ \E p \in Paths, l \in {"open", "linkdata"} :
       LET on(u) == push[u].path = p
       IN  /\ dir' = removed_first(p)
           /\ push' = [u \in Pushes |->
                IF u = pushes'
                THEN [path |-> p, sent |-> 0, file |-> None, state |-> "active",
                      rival |-> \E x \in Sessions : ses[x].u # 0 /\ ses[x].path = p]
                ELSE [push[u] EXCEPT !.rival = @ \/ on(u)]]
           /\ Set(s, [ses[s] EXCEPT !.ans = <<>>, !.phase = "data", !.path = p,
                                    !.u = pushes', !.pc = l])
  /\ UNCHANGED <<parent, data, time, writers>>

\* The file is open: the data is read next.
opened(s, i) ==
  /\ Set(s, [ses[s] EXCEPT !.fd = i, !.pc = "data"])
  /\ writers' = [writers EXCEPT ![i] = @ \cup {ses[s].u}]
  /\ push' = [push EXCEPT ![ses[s].u].file = i]
  /\ UNCHANGED pushes

\* Mutant: the request is over when the file does not open.
after_open_failure_Return(r) == Return(Answer(r, "FAIL"))

\* fail_errno; the data that the host sends anyway is read and dropped.
after_open_failure(r) == Goto(Answer(r, "FAIL"), "data")

open_failed(s) ==
  /\ UNCHANGED <<fsVars, pushes, writers>>
  /\ Set(s, after_open_failure(ses[s]))
  /\ PushIs(ses[s].u, "failed")

\* open(path, O_WRONLY|O_CREAT|O_EXCL), the first time and after mkdirs.
handle_send_file(s) ==
  LET p == ses[s].path
  IN  /\ ses[s].pc \in {"open", "open2"}
      /\ \/ /\ p \notin parent /\ ses[s].pc = "open"
            /\ UNCHANGED <<fsVars, histVars>>
            /\ Set(s, [ses[s] EXCEPT !.pc = "mkdirs"])
         \/ /\ p \in parent /\ dir[p] # None
            /\ UNCHANGED <<fsVars, histVars>>
            /\ Set(s, [ses[s] EXCEPT !.pc = "exists"])
         \/ /\ p \in parent /\ dir[p] = None
            /\ dir' = [dir EXCEPT ![p] = File(ses[s].u)]
            /\ UNCHANGED <<parent, data, time>>
            /\ opened(s, ses[s].u)
         \/ open_failed(s)

\* Somebody has created it since: open(path, O_WRONLY), with no O_TRUNC.
open_existing(s) ==
  /\ ses[s].pc = "exists"
  /\ LET i == Resolve(ses[s].path)
     IN  \/ i # None /\ UNCHANGED fsVars /\ opened(s, i)
         \/ open_failed(s)

mkdirs(s) ==
  /\ ses[s].pc \in {"mkdirs", "linkmkdirs"}
  /\ parent' \in {parent, parent \cup {ses[s].path}}
  /\ UNCHANGED <<dir, data, time>>
  /\ Set(s, [ses[s] EXCEPT !.pc = IF @ = "mkdirs" THEN "open2" ELSE "symlink2"])
  /\ UNCHANGED histVars

\* A DATA message, written if the file is open.
send_data(s) ==
  LET u == ses[s].u  k == push[u].sent
  IN  /\ ses[s].pc = "data" /\ ses[s].phase = "data" /\ k < MaxChunks
      /\ push' = [push EXCEPT ![u].sent = @ + 1]
      /\ IF ses[s].fd = None THEN UNCHANGED <<data, time>>
         ELSE /\ data' = [data EXCEPT ![ses[s].fd] = Written(@, k, u)]
              /\ time' = [time EXCEPT ![ses[s].fd] = 0]
      /\ UNCHANGED <<ses, dir, parent, pushes, writers>>

\* Mutant: what was written so far stays.
removed_on_error_Not(p) == dir

\* adb_unlink(path), after an error.
removed_on_error(p) == Unlinked(p)

\* Mutant: the closed descriptor is kept.
fd_after_error_Kept(s) == ses[s].fd

\* fd=-1, after an error.
fd_after_error(s) == None

\* The write fails: the file goes, the rest of the data is dropped.
write_failed(s) ==
  LET u == ses[s].u
  IN  /\ ses[s].pc = "data" /\ ses[s].phase = "data" /\ ses[s].fd # None
      /\ push[u].sent < MaxChunks
      /\ dir' = removed_on_error(ses[s].path)
      /\ Set(s, Answer([ses[s] EXCEPT !.fd = fd_after_error(s)], "FAIL"))
      /\ push' = [push EXCEPT ![u].sent = @ + 1, ![u].state = "failed"]
      /\ UNCHANGED <<parent, data, time, pushes, writers>>

\* An invalid or oversize message, or the end of the stream.
send_aborted(s) ==
  LET u == ses[s].u
  IN  /\ ses[s].pc = "data"
      /\ dir' = Unlinked(ses[s].path)
      /\ Set(s, Over)
      /\ PushIs(u, "failed")
      /\ UNCHANGED <<parent, data, time, pushes, writers>>

\* DONE: close, utime on the path, OKAY; nothing if it has failed before.
send_done(s) ==
  LET u == ses[s].u  i == Resolve(ses[s].path)
      r == [ses[s] EXCEPT !.phase = "idle"]
  IN  /\ ses[s].pc = "data" /\ ses[s].phase = "data"
      /\ UNCHANGED <<dir, parent, data, pushes, writers>>
      /\ IF ses[s].fd # None
         THEN /\ time' = IF i = None THEN time ELSE [time EXCEPT ![i] = u]
              /\ Set(s, Return(Answer(r, "OK")))
              /\ PushIs(u, IF r.gone THEN "left" ELSE "okay")
         ELSE /\ Set(s, Return(r))
              /\ UNCHANGED <<time, push>>

-----------------------------------------------------------------------------
(* SEND of a symbolic link.                                                *)

\* DATA holds the target.
link_data(s) ==
  /\ ses[s].pc = "linkdata"
  /\ UNCHANGED <<fsVars, histVars>>
  /\ \E p \in Paths : Set(s, [ses[s] EXCEPT !.to = p, !.pc = "symlink"])

\* Anything else, or no DONE after the link was made, ends the thread.
link_aborted(s) ==
  /\ ses[s].pc \in {"linkdata", "linkdone"}
  /\ UNCHANGED <<fsVars, pushes, writers>>
  /\ Set(s, Over)
  /\ PushIs(ses[s].u, "left")

\* symlink, the first time and after mkdirs.
handle_send_link(s) ==
  LET p == ses[s].path
  IN  /\ ses[s].pc \in {"symlink", "symlink2"}
      /\ UNCHANGED <<parent, data, time, pushes, writers>>
      /\ \/ /\ p \notin parent /\ ses[s].pc = "symlink"
            /\ UNCHANGED <<dir, push>>
            /\ Set(s, [ses[s] EXCEPT !.pc = "linkmkdirs"])
         \/ /\ p \in parent /\ dir[p] = None
            /\ dir' = [dir EXCEPT ![p] = Link(ses[s].to)]
            /\ Set(s, [ses[s] EXCEPT !.pc = "linkdone"])
            /\ UNCHANGED push
         \/ UNCHANGED dir /\ Set(s, Over) /\ PushIs(ses[s].u, "failed")

link_done(s) ==
  /\ ses[s].pc = "linkdone"
  /\ UNCHANGED <<fsVars, pushes, writers>>
  /\ Set(s, Return(Answer([ses[s] EXCEPT !.phase = "idle"], "OK")))
  /\ PushIs(ses[s].u, "left")

-----------------------------------------------------------------------------
(* RECV.                                                                   *)

do_recv(s) ==
  /\ Requested(s)
  /\ UNCHANGED <<fsVars, histVars>>
  /\ \E p \in Paths :
       LET r == [ses[s] EXCEPT !.ans = <<>>, !.path = p]
       IN  \/ Resolve(p) # None /\ Set(s, [r EXCEPT !.pc = "recv", !.fd = Resolve(p)])
           \/ Set(s, Return(Answer(r, "FAIL")))

\* read and a DATA message.
recv_data(s) ==
  /\ ses[s].pc = "recv" /\ Len(ses[s].got) < Len(data[ses[s].fd])
  /\ UNCHANGED <<fsVars, histVars>>
  /\ Set(s, IF ses[s].gone THEN Over
            ELSE [ses[s] EXCEPT !.got = Append(@, data[ses[s].fd][Len(@) + 1])])

\* The file ends: DONE.
recv_done(s) ==
  /\ ses[s].pc = "recv" /\ Len(ses[s].got) = Len(data[ses[s].fd])
  /\ UNCHANGED <<fsVars, histVars>>
  /\ Set(s, Return(Answer(ses[s], "OK")))

\* Mutant: an error is taken for the end of the file.
read_error_answer_Done == "OK"

\* fail_errno, when read returns -1.
read_error_answer == "FAIL"

recv_failed(s) ==
  /\ ses[s].pc = "recv"
  /\ UNCHANGED <<fsVars, histVars>>
  /\ Set(s, Return(Answer(ses[s], read_error_answer)))

-----------------------------------------------------------------------------
Thread(s) ==
  \/ end_session(s) \/ do_stat(s)
  \/ do_list(s) \/ list_entry(s) \/ list_done(s)
  \/ do_send(s) \/ handle_send_file(s) \/ open_existing(s) \/ mkdirs(s)
  \/ send_data(s) \/ write_failed(s) \/ send_aborted(s) \/ send_done(s)
  \/ link_data(s) \/ link_aborted(s) \/ handle_send_link(s) \/ link_done(s)
  \/ do_recv(s) \/ recv_data(s) \/ recv_done(s) \/ recv_failed(s)

Next == \E s \in Sessions : file_sync_service(s) \/ stream_closed(s) \/ Thread(s)

Spec == Init /\ [][Next]_vars

-----------------------------------------------------------------------------
(* Properties.                                                             *)

\* The time of file i is what push u sent, or was set by a push to another path
\* whose own file had lost that path to a rival: utime follows the rival's link.
TimeSent(u, i) ==
  \/ time[i] = u
  \/ time[i] \in Pushes /\ push[time[i]].rival /\ push[time[i]].path # push[u].path

\* OKAY means that the file is there and whole: the path names a file of
\* exactly the chunks that were sent, with the time that was sent.  That is
\* all that can be promised when no other push to the path overlaps or follows
\* and nobody writes to the file through a link, and there the code keeps it;
\* but the time can be lost to a push that has lost its own path.  Where the
\* old file cannot be removed its end may show after the new data.
OkayIsWhole ==
  \A u \in Pushes :
    LET q == push[u]  i == q.file
    IN  q.state = "okay" /\ ~q.rival /\ writers[i] = {u} =>
          /\ Resolve(q.path) = i /\ TimeSent(u, i)
          /\ Len(data[i]) >= q.sent /\ \A k \in 1..q.sent : data[i][k] = u
          /\ q.path \notin Pinned => i = u /\ Len(data[i]) = q.sent

\* A push that failed leaves no file behind, however far it came, and whoever
\* else uses the path: what it has written of its own file has no name.
NoPartialFile ==
  \A u \in Pushes : push[u].state = "failed" => \A p \in Paths : dir[p] # File(u)

\* The thread and the host never lose step: when it reads a request the host
\* has sent one, and the request before was answered exactly once, whatever
\* failed in it and however much data followed.
InStep ==
  \A s \in Sessions : ses[s].pc = "request" => ses[s].phase = "idle" /\ Len(ses[s].ans) = 1

Ends(s, st) == ses[s].pc = st /\ ses'[s].pc = "request" /\ ses'[s].ans = <<"OK">>

\* A pull that ends in DONE has sent what the file holds, even if the file was
\* still being pushed or has lost its name, as long as one push wrote it.
PullIsWhole ==
  [][\A s \in Sessions :
       Ends(s, "recv") /\ Cardinality(writers[ses[s].fd]) <= (IF ses[s].fd \in Pushes THEN 1 ELSE 0)
         => ses[s].got = data[ses[s].fd]]_vars

\* A listing has every name that was there all the time, although other names
\* go away under it.
ListIsComplete ==
  [][\A s \in Sessions : Ends(s, "list") => ses[s].stay \subseteq ses[s].sent]_vars
=============================================================================
