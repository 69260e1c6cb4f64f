-------------------------------- MODULE Auth --------------------------------
(***************************************************************************)
(* Authentication: adb_auth_client.c and the AUTH packets of adb.c.        *)
(*                                                                         *)
(* With --auth the daemon reads a list of keys and listens for a           *)
(* framework, the program that asks the user.  A host that connects gets a *)
(* token; its signatures are never accepted, since adb_auth_verify has no  *)
(* body, so it sends its public key, which goes to the framework on the    *)
(* one connection that framework_fd names.  The transport's auth_fde then  *)
(* watches that connection for the answer.  It is taken off only after an  *)
(* error, while transports and frameworks come and go; when it is put on   *)
(* another connection, epoll still reports the first, and what is read is  *)
(* the second.                                                             *)
(***************************************************************************)
EXTENDS Base64, FiniteSets

CONSTANTS
  Transports,  \* connections of hosts
  None,
  Conns,       \* descriptors of framework connections
  KeySize,     \* sizeof(RSAPublicKey)
  GoodByte,    \* the first byte of a key with the right len
  Chars,       \* the characters that the key file may hold
  MaxLine      \* bound: characters of a line

ASSUME AuthAssumption ==
  /\ KeySize \in Nat /\ MaxLine \in Nat
  /\ Chars \subseteq 0..Other
  /\ None \notin Transports \cup Conns

VARIABLES
  line,          \* the line of the key file that is being read, or None
  dec,           \* b64_pton's variables
  keys,          \* key_list
  auth_enabled,  \* --auth
  up,            \* each transport: "new", "up" or "freed"
  online,        \* t->online
  fde,           \* t->auth_fde.fd
  active,        \* t->auth_fde is installed
  epoll,         \* kernel: the transport whose auth_fde each connection reports
  conn,          \* each framework connection: what can be read from it
  framework_fd,
  dead,          \* why the daemon has ended
  approved       \* history: the transports whose key the framework accepted

loadVars == <<line, dec, keys>>
fdeVars == <<fde, active, epoll>>
tVars == <<up, online, fdeVars>>
vars == <<loadVars, auth_enabled, tVars, conn, framework_fd, dead, approved>>

Size == KeySize + 4

TypeOK ==
  /\ line \in Seq(Chars) \cup {<<None>>}
  /\ dec.state \in 0..3 /\ dec.tarindex \in 0..(IF dec.state = 0 THEN Size ELSE Size - 1)
  /\ \A i \in 0..(Size - 1) : dec.target[i] \in 0..255
  /\ keys \in Seq(Seq(0..255))
  /\ auth_enabled \in BOOLEAN
  /\ up \in [Transports -> {"new", "up", "freed"}]
  /\ online \in [Transports -> BOOLEAN]
  /\ fde \in [Transports -> Conns \cup {None}]
  /\ active \in [Transports -> BOOLEAN]
  /\ epoll \in [Conns -> Transports \cup {None}]
  /\ conn \in [Conns -> {"unused", "open", "asked", "OK", "NO", "reset", "eof", "shut"}]
  /\ framework_fd \in Conns \cup {None}
  /\ dead \in {"no", "epoll_ctl", "freed"}
  /\ approved \subseteq Transports

Init ==
  /\ line = <<>>
  /\ dec = Start(Size)
  /\ keys = <<>>
  /\ auth_enabled \in BOOLEAN
  /\ up = [t \in Transports |-> "new"]
  /\ online = [t \in Transports |-> FALSE]
  /\ fde = [t \in Transports |-> None]
  /\ active = [t \in Transports |-> FALSE]
  /\ epoll = [c \in Conns |-> None]
  /\ conn = [c \in Conns |-> "unused"]
  /\ framework_fd = None
  /\ dead = "no"
  /\ approved = {}

-----------------------------------------------------------------------------
(* read_keys, when the daemon starts.                                      *)

Loading == auth_enabled /\ line # <<None>>

\* One character of the part of the line that b64_pton gets, which ends before
\* the first blank or tab.  White space in it is what strpbrk does not look for:
\* the newline that fgets keeps, carriage returns and the like.
read_char ==
  /\ Loading /\ Len(line) < MaxLine
  /\ \E c \in Chars :
       /\ line' = Append(line, c)
       /\ dec' = Step(dec, Size, c)
  /\ UNCHANGED <<keys, auth_enabled, tVars, conn, framework_fd, dead, approved>>

Bytes == [k \in 1..KeySize |-> dec.target[k - 1]]

\* b64_pton(...)==sizeof(key->key)&&key->key.len==RSANUMWORDS.
is_key == Result(dec) = KeySize /\ Bytes[1] = GoodByte

\* The line is over, or a blank or a tab ends it; one that is no key is skipped.
read_key ==
  /\ Loading
  /\ keys' = IF is_key THEN <<Bytes>> ELSE <<>>
  /\ line' = <<None>>
  /\ dec' = Start(Size)
  /\ UNCHANGED <<auth_enabled, tVars, conn, framework_fd, dead, approved>>

-----------------------------------------------------------------------------
(* The main thread.                                                        *)

Runs == dead = "no" /\ ~Loading

connect(t) ==
  /\ Runs /\ up[t] = "new"
  /\ up' = [up EXCEPT ![t] = "up"]
  /\ UNCHANGED <<loadVars, auth_enabled, online, fdeVars, conn, framework_fd, dead, approved>>

\* The transport ends and is freed; its auth_fde stays where it is.
free_transport(t) ==
  /\ Runs /\ up[t] = "up"
  /\ up' = [up EXCEPT ![t] = "freed"]
  /\ online' = [online EXCEPT ![t] = FALSE]
  /\ UNCHANGED <<loadVars, auth_enabled, fdeVars, conn, framework_fd, dead, approved>>

\* CNXN: online at once, or a token for the host.  handle_offline comes first
\* unless the transport is CS_OFFLINE; then it is not online anyway.
handle_CNXN(t) ==
  /\ Runs /\ up[t] = "up"
  /\ online' = [online EXCEPT ![t] = ~auth_enabled]
  /\ UNCHANGED <<loadVars, auth_enabled, up, fdeVars, conn, framework_fd, dead, approved>>

\* Mutant: any signature will do while there is a key.
adb_auth_verify_Any == keys # <<>>

adb_auth_verify == FALSE

\* AUTH with a signature: another token, since it is never accepted.  AUTH
\* with a token changes nothing: the daemon has no key to sign with.
handle_SIGNATURE(t) ==
  /\ Runs /\ up[t] = "up"
  /\ online' = [online EXCEPT ![t] = @ \/ adb_auth_verify]
  /\ UNCHANGED <<loadVars, auth_enabled, up, fdeVars, conn, framework_fd, dead, approved>>

Usable(c) == conn[c] \in {"open", "asked", "OK", "NO"}

\* AUTH with a public key: adb_auth_confirm_key.  The key is written to the
\* framework, and auth_fde installed on its connection, wherever it was before;
\* epoll_ctl fails when the connection is being watched already.
handle_RSAPUBLICKEY(t) ==
  /\ Runs /\ up[t] = "up" /\ framework_fd # None
  /\ Usable(framework_fd)
  /\ conn' = [conn EXCEPT ![framework_fd] = "asked"]
  /\ fde' = [fde EXCEPT ![t] = framework_fd]
  /\ active' = [active EXCEPT ![t] = TRUE]
  /\ IF epoll[framework_fd] # None
     THEN dead' = "epoll_ctl" /\ UNCHANGED epoll
     ELSE epoll' = [epoll EXCEPT ![framework_fd] = t] /\ UNCHANGED dead
  /\ UNCHANGED <<loadVars, auth_enabled, up, online, framework_fd, approved>>

\* A framework connects; the one before is forgotten.
adb_auth_listener ==
  /\ Runs /\ auth_enabled
  /\ \E c \in Conns :
       /\ conn[c] = "unused"
       /\ conn' = [conn EXCEPT ![c] = "open"]
       /\ framework_fd' = c
  /\ UNCHANGED <<loadVars, auth_enabled, tVars, dead, approved>>

\* ret==2&&response[0]=='O'&&response[1]=='K'.
accepted(c) == conn[c] = "OK"

\* A disconnect: auth_fde is removed, which closes what it is installed on;
\* and there is no framework any more, whichever this was.
Disconnect(t) ==
  /\ framework_fd' = None
  /\ active' = [active EXCEPT ![t] = FALSE]
  /\ IF active[t]
     THEN /\ conn' = [conn EXCEPT ![fde[t]] = "shut"]
          /\ epoll' = [epoll EXCEPT ![fde[t]] = None]
     ELSE UNCHANGED <<conn, epoll>>
  /\ UNCHANGED <<fde, online, dead>>

\* adb_auth_reload_keys, again: the file is what it is by now.
reloaded ==
  {<<>>} \cup {<<k>> : k \in {b \in [1..KeySize -> 0..255] : b[1] = GoodByte}}

\* epoll reports c, and adb_auth_event reads from auth_fde's descriptor, which
\* may be another one and have nothing to read: EAGAIN is a disconnect too.  At
\* an end of file nothing is done, and epoll reports it again and again.  The
\* transport may have been freed.
adb_auth_event(c) ==
  LET t == epoll[c]  d == fde[t]
  IN  /\ Runs /\ t # None /\ conn[c] \in {"OK", "NO", "reset", "eof"}
      /\ UNCHANGED <<line, dec, auth_enabled, up, approved>>
      /\ \/ /\ up[t] = "freed"
            /\ dead' = "freed" /\ UNCHANGED <<keys, online, fdeVars, conn, framework_fd>>
         \/ /\ up[t] # "freed" /\ conn[d] \in {"OK", "NO"}
            /\ keys' \in IF accepted(d) THEN reloaded ELSE {keys}
            /\ online' = [online EXCEPT ![t] = @ \/ accepted(d)]
            /\ conn' = [conn EXCEPT ![d] = "open"]
            /\ UNCHANGED <<fdeVars, framework_fd, dead>>
         \/ /\ up[t] # "freed" /\ conn[d] \notin {"OK", "NO", "eof"}
            /\ Disconnect(t) /\ UNCHANGED keys

-----------------------------------------------------------------------------
(* The framework.                                                          *)

\* The user decides about the key of t.
framework_answers(t) ==
  /\ Runs /\ active[t] /\ conn[fde[t]] = "asked"
  /\ \E a \in {"OK", "NO"} :
       /\ conn' = [conn EXCEPT ![fde[t]] = a]
       /\ approved' = IF a = "OK" THEN approved \cup {t} ELSE approved
  /\ UNCHANGED <<loadVars, auth_enabled, tVars, framework_fd, dead>>

\* It ends, in order or not; a reset takes an answer that was not read along.
framework_ends(c) ==
  /\ Runs /\ Usable(c)
  /\ \E e \in {"reset"} \cup (IF conn[c] \in {"OK", "NO"} THEN {} ELSE {"eof"}) :
       conn' = [conn EXCEPT ![c] = e]
  /\ UNCHANGED <<loadVars, auth_enabled, tVars, framework_fd, dead, approved>>

-----------------------------------------------------------------------------
Next ==
  \/ read_char \/ read_key
  \/ adb_auth_listener
  \/ \E t \in Transports :
       \/ connect(t) \/ free_transport(t)
       \/ handle_CNXN(t) \/ handle_SIGNATURE(t) \/ handle_RSAPUBLICKEY(t)
       \/ framework_answers(t)
  \/ \E c \in Conns : adb_auth_event(c) \/ framework_ends(c)

Spec == Init /\ [][Next]_vars

-----------------------------------------------------------------------------
(* Properties.                                                             *)

\* With --auth a host is served only when the framework has accepted a key
\* that came over the same transport, whichever of the transports and of the
\* framework's connections come, go or overlap.
ApprovedOnly == auth_enabled => \A t \in Transports : online[t] => t \in approved

\* b64_pton returns what the line stands for, byte by byte, whatever white
\* space, pads and stray characters it holds, and -1 for what is no Base64 or too long.
DecodesBase64 ==
  Loading =>
    LET want == Decoded(line, Size)
    IN  IF want = <<Error>> THEN Result(dec) = Error
        ELSE Result(dec) = Len(want) /\ \A k \in DOMAIN want : dec.target[k - 1] = want[k]

=============================================================================
