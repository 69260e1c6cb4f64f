---------------------------- MODULE Descriptors ----------------------------
(***************************************************************************)
(* Descriptor numbers while a TCP transport is taken down.                 *)
(*                                                                         *)
(* The last thread of the transport closes t->fd (transport_unref_locked,  *)
(* remote_close); main closes the same number again when it gets to the    *)
(* removal (transport_registration_func).  Between the two, main serves    *)
(* other connections and opens descriptors for their streams, and the      *)
(* kernel gives out the lowest number that is free.  fd_table is the       *)
(* event loop's own record of who has which number.                        *)
(***************************************************************************)
EXTENDS Naturals, FiniteSets

CONSTANTS
  Nums,     \* descriptor numbers that are not in use otherwise
  Streams,  \* streams of other connections
  Nobody

Transport == "transport"

VARIABLES
  file,      \* kernel: what each number refers to
  fd_table,  \* the fdevent of each number
  fd,        \* the number that each stream's fdevent has
  stage,     \* the transport: "up", "closed" by its thread, "removed" by main
  fatal      \* fd_table is out of sync: the daemon aborts

vars == <<file, fd_table, fd, stage, fatal>>

Lowest(S) == CHOOSE n \in S : \A k \in S : n <= k
Free == {n \in Nums : file[n] = Nobody}

\* transport_registration_func made a socketpair: the lowest number is main's
\* end, with an fdevent, the next is the threads' end, t->fd.
transport_socket == Lowest(Nums)
t_fd == Lowest(Nums \ {transport_socket})

Init ==
  /\ file = [n \in Nums |-> IF n \in {transport_socket, t_fd} THEN Transport ELSE Nobody]
  /\ fd_table = [n \in Nums |-> IF n = transport_socket THEN Transport ELSE Nobody]
  /\ fd = [s \in Streams |-> Nobody]
  /\ stage = "up"
  /\ fatal = FALSE

\* The last thread: t->close.
remote_close ==
  /\ stage = "up"
  /\ stage' = "closed"
  /\ file' = [file EXCEPT ![t_fd] = Nobody]
  /\ UNCHANGED <<fd_table, fd, fatal>>

\* Main: fdevent_remove(&t->transport_fde) and adb_close(t->fd).
remove_transport ==
  /\ stage = "closed"
  /\ stage' = "removed"
  /\ fd_table' = [fd_table EXCEPT ![transport_socket] = Nobody]
  /\ file' = [file EXCEPT ![transport_socket] = Nobody, ![t_fd] = Nobody]
  /\ UNCHANGED <<fd, fatal>>

\* Main: a service's descriptor and fdevent_register for it.
open_stream(s) ==
  /\ fd[s] = Nobody /\ Free # {}
  /\ fd' = [fd EXCEPT ![s] = Lowest(Free)]
  /\ file' = [file EXCEPT ![Lowest(Free)] = s]
  /\ fd_table' = [fd_table EXCEPT ![Lowest(Free)] = s]
  /\ UNCHANGED <<stage, fatal>>

\* Main: fdevent_remove, with the check of fdevent_unregister.
close_stream(s) ==
  /\ fd[s] # Nobody
  /\ IF fd_table[fd[s]] # s
     THEN fatal' = TRUE /\ UNCHANGED <<file, fd_table, fd>>
     ELSE /\ fd_table' = [fd_table EXCEPT ![fd[s]] = Nobody]
          /\ file' = [file EXCEPT ![fd[s]] = Nobody]
          /\ fd' = [fd EXCEPT ![s] = Nobody]
          /\ UNCHANGED fatal
  /\ UNCHANGED stage

Next ==
  /\ ~fatal
  /\ remote_close \/ remove_transport \/ \E s \in Streams : open_stream(s) \/ close_stream(s)

Spec == Init /\ [][Next]_vars

\* An fdevent that is removed is the one fd_table has for its number:
\* fdevent_unregister says "if(fd_table[fde->fd] !=fde)FATAL("fd_table out of
\* sync [%d]\n",fde->fd)".
InSync == ~fatal
=============================================================================
