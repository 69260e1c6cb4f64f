------------------------------ MODULE Services ------------------------------
(***************************************************************************)
(* Services behind streams: services.c, framebuffer_service.c,             *)
(* log_service.c, remount_service.c, and the notification of a shell's     *)
(* exit in fdevent.c.                                                      *)
(*                                                                         *)
(* A shell runs in a process of its own, on a pseudo-terminal that is the  *)
(* stream's descriptor.  A thread waits for the process and then writes    *)
(* the number of that descriptor to the main thread, which may have closed *)
(* it and given the number to another stream meanwhile.  Main depends on   *)
(* the message: epoll reports a terminal that everybody has left, and that *)
(* has nothing to read, as an error, and local_socket_event_func ignores   *)
(* errors.  Other services are threads at the far end of a socketpair; the *)
(* framebuffer's has a process too.  All of them wait for processes, some  *)
(* for any, so one may take the exit status that another waits for.        *)
(***************************************************************************)
EXTENDS Integers, Sequences, FiniteSets

CONSTANTS
  MaxStreams,  \* bound: streams that are opened
  Nums,        \* descriptor numbers for them
  Payload,     \* MAX_PAYLOAD
  Buf,         \* sizeof(buf) in framebuffer_service
  Sizes,       \* sizes of a screen
  Cap,         \* what a terminal, a socketpair or a pipe holds
  MaxOut       \* bound: output of a shell or of a simple service

ASSUME ServicesAssumption ==
  /\ MaxStreams \in Nat /\ Payload \in Nat \ {0} /\ Buf \in Nat \ {0}
  /\ Nums \subseteq Nat /\ Sizes \subseteq Nat \ {0} /\ Cap \in Nat \ {0} /\ MaxOut \in Nat

Streams == 1..MaxStreams
NoFd == -1

VARIABLES
  st,     \* each stream: its socket in main, its service and its process
  notes,  \* numbers written to SHELL_EXIT_NOTIFY_FD, not yet read
  alive   \* FALSE: a socket with exit_on_close was destroyed
vars == <<st, notes, alive>>

Unused == [kind |-> "none", fd |-> NoFd, sock |-> "none", exits |-> FALSE, force |-> FALSE,
           watch |-> FALSE, asked |-> FALSE, unread |-> 0, out |-> 0, holders |-> {},
           child |-> "none", waiter |-> "none", target |-> "none",
           size |-> 0, made |-> 0, got |-> 0]

TypeOK ==
  /\ st \in [Streams -> [kind : {"none", "shell", "frame", "thread"}, fd : Nums \cup {NoFd},
       sock : {"none", "open", "gone"}, exits : BOOLEAN, force : BOOLEAN, watch : BOOLEAN,
       asked : BOOLEAN, unread : 0..Cap, out : 0..MaxOut, holders : SUBSET {"main", "bg"},
       child : {"none", "run", "zombie", "reaped"},
       waiter : {"none", "wait", "notify", "spin", "head", "copy", "done"},
       target : {"none", "own", "group", "any"},
       size : {0} \cup Sizes, made : Nat, got : Nat]]
  /\ notes \in Seq(Nums \cup {NoFd}) /\ Len(notes) <= MaxStreams
  /\ alive \in BOOLEAN

Init ==
  /\ st = [i \in Streams |-> Unused]
  /\ notes = <<>>
  /\ alive = TRUE

Open == {i \in Streams : st[i].sock = "open"}
Free == Nums \ {st[i].fd : i \in Open}
\* The kernel gives the lowest number.
NewFd == {n \in Free : \A k \in Free : n <= k}
Upd(i, r) == st' = [st EXCEPT ![i] = r]

\* A service's descriptor becomes a local socket; the peer gets READY.
Connected(k, n) ==
  [Unused EXCEPT !.kind = k, !.fd = n, !.sock = "open", !.watch = TRUE, !.holders = {"main"}]

-----------------------------------------------------------------------------
(* Processes: what waitpid finds.                                          *)

Live == {"run", "zombie"}
\* A shell is in a session of its own, the framebuffer's process is not.
InGroup(j) == st[j].kind = "frame"
Awaited(i) ==
  CASE st[i].target = "own"   -> {i}
    [] st[i].target = "group" -> {j \in Streams : InGroup(j)}
    [] st[i].target = "any"   -> Streams
    [] OTHER                  -> {}
Children(i) == {j \in Awaited(i) : st[j].child \in Live}
Exited(i) == {j \in Awaited(i) : st[j].child = "zombie"}
\* i takes the exit status of j and goes on as w, with what it holds H.
Reaped(i, j, w, H) == st' = [st EXCEPT ![j].child = "reaped", ![i].waiter = w, ![i].holders = H]

-----------------------------------------------------------------------------
(* Shells: create_subproc_thread and the thread it starts.                 *)

\* Mutant: the waiter gets no process.
waits_for_Zero(forked) == "group"

\* The cookie is pid, which is 0 when nothing was forked.
waits_for(forked) == IF forked THEN "own" ELSE "group"

\* The terminal opens and the shell is forked; or the terminal does not open;
\* or fork fails and pid is -1.  The waiter is started all the same.
create_subproc_thread(i) ==
  /\ st[i].kind = "none"
  /\ UNCHANGED <<notes, alive>>
  /\ LET failed == [Unused EXCEPT !.kind = "shell", !.sock = "gone", !.waiter = "wait"]
     IN  \/ \E n \in NewFd :
              Upd(i, [Connected("shell", n) EXCEPT
                        !.child = "run", !.waiter = "wait", !.target = waits_for(TRUE)])
         \/ Upd(i, [failed EXCEPT !.target = waits_for(FALSE)])
         \/ Upd(i, [failed EXCEPT !.target = "any"])

\* The waiter itself cannot be started: the terminal is closed.
create_subproc_thread_fails(i) ==
  /\ st[i].kind = "none"
  /\ Upd(i, [Unused EXCEPT !.kind = "shell", !.sock = "gone", !.child = "run", !.holders = {"main"}])
  /\ UNCHANGED <<notes, alive>>

\* The shell, or what it left in the background, writes.
shell_output(i) ==
  /\ st[i].kind = "shell" /\ st[i].sock = "open" /\ st[i].holders # {}
  /\ st[i].unread < Cap /\ st[i].out < MaxOut
  /\ Upd(i, [st[i] EXCEPT !.unread = @ + 1, !.out = @ + 1])
  /\ UNCHANGED <<notes, alive>>

\* The shell exits, perhaps leaving a process in the background.
shell_exit(i) ==
  /\ st[i].kind = "shell" /\ st[i].child = "run"
  /\ \E H \in {{}, {"bg"}} : Upd(i, [st[i] EXCEPT !.child = "zombie", !.holders = H])
  /\ UNCHANGED <<notes, alive>>

background_exit(i) ==
  /\ "bg" \in st[i].holders
  /\ Upd(i, [st[i] EXCEPT !.holders = {}])
  /\ UNCHANGED <<notes, alive>>

\* waitpid(pid) returns pid only for the shell itself; for -1 an error, that
\* there are no children, looks like success; 0 is never returned.
wait_again(i, j) == IF st[i].target = "own" /\ i = j THEN "notify" ELSE "wait"
no_children(i) == IF st[i].target = "any" THEN "notify" ELSE "spin"

subproc_waiter_service(i) ==
  /\ st[i].kind = "shell" /\ st[i].waiter \in {"wait", "spin"}
  /\ \/ \E j \in Exited(i) : Reaped(i, j, wait_again(i, j), st[i].holders)
     \/ Children(i) = {} /\ Upd(i, [st[i] EXCEPT !.waiter = no_children(i)])
  /\ UNCHANGED <<notes, alive>>

\* Mutant: the loop is not left.
after_notify_Again == "notify"

\* The thread ends.
after_notify == "done"

notify(i) ==
  /\ st[i].waiter = "notify"
  /\ notes' = Append(notes, st[i].fd)
  /\ Upd(i, [st[i] EXCEPT !.waiter = after_notify])
  /\ UNCHANGED alive

-----------------------------------------------------------------------------
(* The main thread.                                                        *)

\* Mutant: EIO from the terminal is not the end of the stream.
saw_eof_Zero(r) == r.holders = {} /\ r.unread < Payload /\ r.kind # "shell"

\* The read loop reaches the end: 0 from a socket, EIO from a terminal.
saw_eof(r) == r.holders = {} /\ r.unread < Payload

\* Mutant: a forced end needs no other reason.
closes_Forced(force, result, eof) == force \/ eof

\* if((force_eof&&!r)||is_eof).
closes(force, result, eof) == (force /\ result = 0) \/ eof

\* local_socket_destroy.
Destroyed(r) == [r EXCEPT !.sock = "gone", !.watch = FALSE, !.force = FALSE, !.unread = 0, !.out = 0]

\* local_socket_event_func for FDE_READ.  The enqueue of a remote socket
\* returns 1, so the socket is not watched until the host's OKAY.
Event(r) ==
  LET n == IF r.unread < Payload THEN r.unread ELSE Payload
      result == IF n > 0 THEN 1 ELSE IF saw_eof(r) /\ r.kind # "shell" THEN 0 ELSE -1
      read == [r EXCEPT !.unread = @ - n, !.watch = IF n > 0 THEN FALSE ELSE @]
  IN  IF closes(r.force, result, saw_eof(r)) THEN Destroyed(read) ELSE read

\* exit_on_close.
Survives(i, r) == alive' = (alive /\ ~(r.exits /\ r.sock = "gone"))

\* epoll reports something to read: data, or the end of a socketpair.
event_func(i) ==
  /\ st[i].sock = "open" /\ st[i].watch
  /\ st[i].unread > 0 \/ (st[i].kind # "shell" /\ st[i].holders = {})
  /\ Upd(i, Event(st[i]))
  /\ Survives(i, Event(st[i]))
  /\ UNCHANGED notes

\* fdevent_subproc_event_func: whichever fdevent has the number now.
fdevent_subproc_event_func ==
  /\ notes # <<>>
  /\ notes' = Tail(notes)
  /\ IF \E i \in Open : st[i].fd = Head(notes)
     THEN \E i \in Open :
            LET r == [st[i] EXCEPT !.force = TRUE]
                e == IF r.unread = 0 THEN Event(r) ELSE r
            IN  /\ st[i].fd = Head(notes)
                /\ Upd(i, e) /\ Survives(i, e)
     ELSE UNCHANGED <<st, alive>>

\* The host's OKAY.
host_okay(i) ==
  /\ st[i].sock = "open" /\ ~st[i].watch
  /\ Upd(i, [st[i] EXCEPT !.watch = TRUE])
  /\ UNCHANGED <<notes, alive>>

\* The host's CLSE, or the end of its connection.
host_close(i) ==
  /\ st[i].sock = "open"
  /\ LET r == [Destroyed(st[i]) EXCEPT !.asked = TRUE]
     IN  Upd(i, r) /\ Survives(i, r)
  /\ UNCHANGED notes

-----------------------------------------------------------------------------
(* Services that are threads: create_service_thread.                       *)

\* remount, log, reboot, usb and tcpip: some output, then the end.  The last
\* two end the daemon with their socket.
create_service_thread(i) ==
  /\ st[i].kind = "none"
  /\ \/ \E n \in NewFd, x \in BOOLEAN : Upd(i, [Connected("thread", n) EXCEPT !.exits = x])
     \/ Upd(i, [Unused EXCEPT !.kind = "thread", !.sock = "gone"])
  /\ UNCHANGED <<notes, alive>>

\* When main has closed the stream a write fails, and these do not look.
service_output(i) ==
  /\ st[i].kind = "thread" /\ st[i].holders # {} /\ st[i].sock = "open"
  /\ st[i].unread < Cap /\ st[i].out < MaxOut
  /\ Upd(i, [st[i] EXCEPT !.unread = @ + 1, !.out = @ + 1])
  /\ UNCHANGED <<notes, alive>>

service_exit(i) ==
  /\ st[i].kind = "thread" /\ st[i].holders # {}
  /\ Upd(i, [st[i] EXCEPT !.holders = {}])
  /\ UNCHANGED <<notes, alive>>

-----------------------------------------------------------------------------
(* The framebuffer service and screencap.                                  *)

\* screencap is started; or pipe or fork fails, and the wait is for any process.
framebuffer_service(i) ==
  /\ st[i].kind = "none"
  /\ \E n \in NewFd :
       LET r == Connected("frame", n) IN
       \/ Upd(i, [r EXCEPT !.child = "run", !.waiter = "head"])
       \/ Upd(i, [r EXCEPT !.waiter = "wait", !.target = "any"])
  /\ UNCHANGED <<notes, alive>>

\* screencap writes its header.  One that cannot be executed never does.
screencap_header(i) ==
  /\ st[i].kind = "frame" /\ st[i].child = "run" /\ st[i].size = 0
  /\ \E z \in Sizes : Upd(i, [st[i] EXCEPT !.size = z])
  /\ UNCHANGED <<notes, alive>>

\* The header is read, which waits for as long as it takes: a format that the
\* service knows, and then the picture, or another.
frame_header(i) ==
  /\ st[i].kind = "frame" /\ st[i].waiter = "head" /\ st[i].size # 0
  /\ \/ Upd(i, [st[i] EXCEPT !.waiter = "copy"])
     \/ Upd(i, [st[i] EXCEPT !.waiter = "wait", !.target = "own"])
  /\ UNCHANGED <<notes, alive>>

\* screencap writes the picture and exits, or exits earlier.
screencap_output(i) ==
  /\ st[i].kind = "frame" /\ st[i].child = "run"
  /\ st[i].made < st[i].size /\ st[i].made - st[i].got < Cap
  /\ Upd(i, [st[i] EXCEPT !.made = @ + 1])
  /\ UNCHANGED <<notes, alive>>

screencap_exit(i) ==
  /\ st[i].kind = "frame" /\ st[i].child = "run"
  /\ Upd(i, [st[i] EXCEPT !.child = "zombie"])
  /\ UNCHANGED <<notes, alive>>

\* Mutant: the loop and the rest each copy the last part of the picture.
to_copy_Twice(size) == size + Buf

\* The loop copies whole buffers until i>=size, then size%sizeof(buf) again.
to_copy(size) == ((size + Buf - 1) \div Buf) * Buf + (size % Buf)

\* readx waits: the thread holds the pipe's other end itself.
frame_copy(i) ==
  /\ st[i].kind = "frame" /\ st[i].waiter = "copy"
  /\ UNCHANGED <<notes, alive>>
  /\ IF st[i].got = to_copy(st[i].size)
     THEN Upd(i, [st[i] EXCEPT !.waiter = "wait", !.target = "own"])
     ELSE /\ st[i].got < st[i].made
          /\ \/ /\ st[i].sock = "open" /\ st[i].unread < Cap
                /\ Upd(i, [st[i] EXCEPT !.got = @ + 1, !.unread = @ + 1])
             \/ /\ st[i].sock = "gone"
                /\ Upd(i, [st[i] EXCEPT !.waiter = "wait", !.target = "own"])

\* waitpid, with whatever result, and the descriptors are closed.
frame_wait(i) ==
  /\ st[i].kind = "frame" /\ st[i].waiter = "wait"
  /\ \/ \E j \in Exited(i) : Reaped(i, j, "done", {})
     \/ Children(i) = {} /\ Upd(i, [st[i] EXCEPT !.waiter = "done", !.holders = {}])
  /\ UNCHANGED <<notes, alive>>

-----------------------------------------------------------------------------
Shell(i) == shell_output(i) \/ shell_exit(i) \/ background_exit(i)
Waiter(i) == subproc_waiter_service(i) \/ notify(i)
Frame(i) == frame_header(i) \/ frame_copy(i) \/ frame_wait(i)
Screencap(i) == screencap_output(i) \/ (st[i].size # 0 /\ st[i].made = st[i].size /\ screencap_exit(i))
\* service_to_fd; the streams are numbered as they are opened.
service_to_fd(i) ==
  /\ \A j \in 1..(i - 1) : st[j].kind # "none"
  /\ \/ create_subproc_thread(i) \/ create_subproc_thread_fails(i)
     \/ create_service_thread(i) \/ framebuffer_service(i)

Next ==
  /\ alive
  /\ \/ fdevent_subproc_event_func
     \/ \E i \in Streams :
          \/ service_to_fd(i)
          \/ Shell(i) \/ Waiter(i)
          \/ event_func(i) \/ host_okay(i) \/ host_close(i)
          \/ service_output(i) \/ service_exit(i)
          \/ screencap_header(i) \/ screencap_output(i) \/ screencap_exit(i) \/ Frame(i)

Spec == Init /\ [][Next]_vars

\* The threads run, the loop turns, the host sends OKAY for what it gets, and a
\* screencap that has written its header goes on.  Shells need not.
Fairness ==
  /\ WF_vars(alive /\ fdevent_subproc_event_func)
  /\ \A i \in Streams :
       /\ WF_vars(alive /\ Waiter(i))
       /\ WF_vars(alive /\ Frame(i))
       /\ WF_vars(alive /\ event_func(i))
       /\ WF_vars(alive /\ host_okay(i))
       /\ WF_vars(alive /\ Screencap(i))

FairSpec == Spec /\ Fairness

-----------------------------------------------------------------------------
(* Properties.                                                             *)

\* A stream is closed only because the host asked for it or because its own
\* service has ended and the read that found out took all of its output.  A
\* notification that comes after its number has a new owner takes nothing from
\* that stream.
ClosesOnlyEnded ==
  [][\A i \in Streams :
       st[i].sock = "open" /\ st'[i].sock = "gone" =>
         st'[i].asked \/ (st[i].holders = {} /\ st[i].unread < Payload)]_vars

Told(i) == st[i].waiter = "notify" \/ \E k \in DOMAIN notes : notes[k] = st[i].fd

\* A shell's stream ends when nobody has the terminal any more.  Main sees the
\* end when it comes after the last bytes of a read that does not fill the
\* packet, or when the notification finds the terminal empty.  Otherwise it is
\* not promised: epoll then reports an error, which is ignored.
ShellEnds ==
  \A i \in Streams :
    (/\ st[i].kind = "shell" /\ st[i].sock = "open" /\ st[i].holders = {}
     /\ st[i].unread % Payload # 0 \/ (st[i].unread = 0 /\ Told(i)))
    ~> (st[i].sock = "gone" \/ ~alive)

\* A shell that exits is waited for, by its own waiter or by another.
NoZombies ==
  \A i \in Streams :
    st[i].kind = "shell" /\ st[i].child = "zombie" /\ st[i].waiter # "none"
      ~> (st[i].child = "reaped" \/ ~alive)

\* A framebuffer request whose header was read ends when the picture is a
\* multiple of the buffer, screencap writes all of it and the host keeps the
\* stream: only then does the thread ask the pipe for no more than there is.
FrameEnds ==
  \A i \in Streams :
    st[i].waiter = "copy" /\ st[i].size % Buf = 0
      ~> (\/ st[i].waiter = "done" \/ st[i].asked \/ ~alive
          \/ st[i].child # "run" /\ st[i].made < st[i].size)
=============================================================================
