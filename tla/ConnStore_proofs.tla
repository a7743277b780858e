-------------------------- MODULE ConnStore_proofs --------------------------
(***************************************************************************)
(* Proofs about ConnStore: for any number of goroutines, connections and   *)
(* certificates, and whatever fails or crashes, what a call acknowledged   *)
(* stays on the disk and in the keyring.                                   *)
(*                                                                         *)
(* The invariant says who holds the mutex, that the holder's change is in  *)
(* memory and (before the rename) in the temporary file, that a call not   *)
(* overlapped on its connection is the only one on it, and that memory and *)
(* file agree wherever something was promised.                             *)
(***************************************************************************)
EXTENDS ConnStore, TLAPS

Holds(c) == call[c] # Idle /\ call[c].pc \in {"write", "rename"}
LockHeld == \A c \in Callers : Holds(c) => lock = c
TmpReady == \A c \in Callers : call[c] # Idle /\ call[c].pc = "rename" => tmp = mem

\* The mutex holder's change is in memory.
Applied == \A c \in Callers : Holds(c) /\ OnConnection(call[c]) =>
               mem.conns[call[c].req.id] = call[c].req.entry
PinApplied == \A c \in Callers : Holds(c) /\ call[c].op = "pin" =>
                  mem.certs[call[c].req.addr] = call[c].req.print

\* A call that is alone is the only one on its connection.
AloneIsAlone == \A c, d \in Callers :
    /\ OnConnection(call[c]) /\ call[c].alone
    /\ OnConnection(call[d]) /\ call[d].req.id = call[c].req.id
    => c = d

\* A save without a password leaves the credential as it was.
CredentialKept == \A c \in Callers :
    OnConnection(call[c]) /\ call[c].alone /\ call[c].op = "save" =>
        keyring[call[c].req.id] = call[c].req.cred

AtKeyring == \A c \in Callers : call[c] # Idle /\ call[c].pc = "keyring" =>
    /\ call[c].op # "save"
    /\ call[c].alone => /\ mem.conns[call[c].req.id] = call[c].req.entry
                        /\ disk.conns[call[c].req.id] = call[c].req.entry

PromiseKept == \A id \in Ids : promised[id] # Unsure =>
    /\ mem.conns[id] = promised[id].entry
    /\ disk.conns[id] = promised[id].entry
    /\ keyring[id] = promised[id].cred
    /\ \A c \in Callers : ~(OnConnection(call[c]) /\ call[c].req.id = id)

PinKept == \A r \in accepted : r.how = "pinned" =>
    mem.certs[r.addr] = r.print /\ disk.certs[r.addr] = r.print

IInv == /\ TypeOK /\ LockHeld /\ TmpReady /\ Applied /\ PinApplied
        /\ AloneIsAlone /\ CredentialKept /\ AtKeyring /\ PromiseKept /\ PinKept

-----------------------------------------------------------------------------
(* The records of calls.                                                   *)

ConnOps == {"save", "saveSecret", "delete", "touch"}
ConnCalls == [op : ConnOps, req : ConnRequest, pc : {"write", "rename", "keyring"}, alone : BOOLEAN]
PinCalls == [op : {"pin"}, req : PinRequest, pc : {"write", "rename"}]
OtherCalls == [op : {"forget", "set"}, pc : {"write", "rename"}]

LEMMA CallKinds == Calls = ConnCalls \cup PinCalls \cup OtherCalls
  BY DEF Calls, ConnCalls, PinCalls, OtherCalls, ConnOps

LEMMA OnConnectionKind ==
  ASSUME NEW k \in Calls, OnConnection(k)
  PROVE  k \in ConnCalls
  BY CallKinds DEF ConnCalls, PinCalls, OtherCalls, OnConnection, ConnOps

\* Moving on to another place, or losing its solitude, a call stays a call.
LEMMA MovedOn ==
  ASSUME NEW k \in Calls, NEW p \in {"write", "rename"}
  PROVE  LET q == [k EXCEPT !.pc = p]
         IN  /\ q \in Calls /\ q.op = k.op /\ q.pc = p
             /\ k \in ConnCalls => q \in ConnCalls /\ q.req = k.req /\ q.alone = k.alone
             /\ k \in PinCalls => q \in PinCalls /\ q.req = k.req
  BY CallKinds DEF ConnCalls, PinCalls, OtherCalls

LEMMA ToKeyring ==
  ASSUME NEW k \in Calls, k.op \in {"saveSecret", "delete"}
  PROVE  LET q == [k EXCEPT !.pc = "keyring"]
         IN  /\ k \in ConnCalls /\ q \in ConnCalls /\ q \in Calls /\ q.op = k.op /\ q.pc = "keyring"
             /\ q.req = k.req /\ q.alone = k.alone
  BY CallKinds DEF ConnCalls, PinCalls, OtherCalls, ConnOps

LEMMA Overlapped ==
  ASSUME NEW k \in ConnCalls
  PROVE  LET q == [k EXCEPT !.alone = FALSE]
         IN  q \in ConnCalls /\ q \in Calls /\ q.op = k.op /\ q.pc = k.pc /\ q.req = k.req /\ ~q.alone
  BY CallKinds DEF ConnCalls

-----------------------------------------------------------------------------
(* The steps.                                                              *)

\* A step that begins a call on a connection.
LEMMA BeginKeeps ==
  ASSUME IInv, NEW c \in Callers, NEW op \in ConnOps, NEW id \in Ids,
         NEW entry \in Entries \cup {Absent}, NEW cred \in Credential,
         BeginOn(c, op, id, entry, cred), op = "save" => cred = keyring[id]
  PROVE  IInv'
<1> DEFINE solo == InFlightOn(id) = {}
           new == [op |-> op, req |-> [id |-> id, entry |-> entry, cred |-> cred],
                   pc |-> "write", alone |-> solo]
<1>1. /\ lock = NoCaller /\ call[c] = Idle /\ lock' = c
      /\ mem' = [mem EXCEPT !.conns[id] = entry]
      /\ disk' = disk /\ tmp' = tmp /\ keyring' = keyring /\ accepted' = accepted
      /\ promised' = [promised EXCEPT ![id] = Unsure]
      /\ call' = [d \in Callers |->
                    IF d = c THEN new
                    ELSE IF d \in InFlightOn(id) THEN [call[d] EXCEPT !.alone = FALSE]
                    ELSE call[d]]
  BY DEF BeginOn, Locked
<1>2. /\ mem \in Config /\ mem' \in Config /\ mem'.conns[id] = entry /\ mem'.certs = mem.certs
      /\ \A j \in Ids : j # id => mem'.conns[j] = mem.conns[j]
  BY <1>1 DEF IInv, TypeOK, Config
<1>3. new \in ConnCalls /\ new \in Calls /\ new.op = op /\ new.pc = "write"
      /\ new.req = [id |-> id, entry |-> entry, cred |-> cred] /\ new.alone = solo
  <2>1. solo \in BOOLEAN
    OBVIOUS
  <2> HIDE DEF solo
  <2> QED BY <2>1, CallKinds DEF ConnCalls, ConnRequest
\* No other goroutine has the mutex.
<1>4. \A d \in Callers : ~Holds(d)
  BY <1>1, StoreAssumption DEF IInv, LockHeld
<1>5. \A d \in Callers : d # c /\ OnConnection(call'[d]) =>
         /\ OnConnection(call[d])
         /\ call'[d].op = call[d].op /\ call'[d].pc = call[d].pc /\ call'[d].req = call[d].req
         /\ call'[d].alone => call[d].alone /\ call[d].req.id # id
  <2> SUFFICES ASSUME NEW d \in Callers, d # c, OnConnection(call'[d])
               PROVE  /\ OnConnection(call[d])
                      /\ call'[d].op = call[d].op /\ call'[d].pc = call[d].pc
                      /\ call'[d].req = call[d].req
                      /\ call'[d].alone => call[d].alone /\ call[d].req.id # id
    OBVIOUS
  <2>1. CASE d \in InFlightOn(id)
    <3>1. OnConnection(call[d]) /\ call[d] \in ConnCalls
      BY <2>1, OnConnectionKind DEF InFlightOn, IInv, TypeOK, OnConnection
    <3>2. call'[d] = [call[d] EXCEPT !.alone = FALSE]
      BY <1>1, <2>1
    <3> QED BY <3>1, <3>2, Overlapped
  <2>2. CASE d \notin InFlightOn(id)
    <3>1. call'[d] = call[d]
      BY <1>1, <2>2
    <3> QED BY <3>1, <2>2 DEF InFlightOn
  <2> QED BY <2>1, <2>2
<1>6. \A d \in Callers : d # c /\ call'[d] # Idle =>
         /\ call[d] # Idle /\ call'[d].pc = call[d].pc /\ call'[d].op = call[d].op
         /\ call[d].op \notin ConnOps => call'[d] = call[d]
  <2> SUFFICES ASSUME NEW d \in Callers, d # c, call'[d] # Idle
               PROVE  /\ call[d] # Idle /\ call'[d].pc = call[d].pc /\ call'[d].op = call[d].op
                      /\ call[d].op \notin ConnOps => call'[d] = call[d]
    OBVIOUS
  <2>1. CASE d \in InFlightOn(id)
    <3>1. OnConnection(call[d]) /\ call[d] \in ConnCalls
      BY <2>1, OnConnectionKind DEF InFlightOn, IInv, TypeOK, OnConnection
    <3>2. call'[d] = [call[d] EXCEPT !.alone = FALSE]
      BY <1>1, <2>1
    <3> QED BY <3>1, <3>2, Overlapped DEF OnConnection, ConnOps
  <2>2. CASE d \notin InFlightOn(id)
    BY <1>1, <2>2
  <2> QED BY <2>1, <2>2
<1>7. call'[c] = new
  BY <1>1
<1>8. new.alone => \A d \in Callers : OnConnection(call[d]) => call[d].req.id # id
  <2>1. solo => \A d \in Callers : OnConnection(call[d]) => call[d].req.id # id
    BY DEF InFlightOn
  <2> HIDE DEF solo, new
  <2> QED BY <1>3, <2>1
<1>9. TypeOK'
  <2>1. call' \in [Callers -> Calls \cup {Idle}]
    <3> SUFFICES ASSUME NEW d \in Callers PROVE call'[d] \in Calls \cup {Idle}
      BY <1>1
    <3>1. CASE d = c
      BY <3>1, <1>3, <1>7
    <3>2. CASE d # c /\ d \in InFlightOn(id)
      <4>1. OnConnection(call[d]) /\ call[d] \in ConnCalls
        BY <3>2, OnConnectionKind DEF InFlightOn, IInv, TypeOK, OnConnection
      <4> QED BY <4>1, <3>2, <1>1, Overlapped
    <3>3. CASE d # c /\ d \notin InFlightOn(id)
      BY <3>3, <1>1 DEF IInv, TypeOK
    <3> QED BY <3>1, <3>2, <3>3
  <2> QED BY <2>1, <1>1, <1>2 DEF IInv, TypeOK
<1> HIDE DEF new
<1>10. LockHeld' /\ TmpReady'
  BY <1>1, <1>3, <1>4, <1>6, <1>7 DEF LockHeld, TmpReady, Holds
<1>11. Applied' /\ PinApplied'
  BY <1>2, <1>3, <1>4, <1>6, <1>7 DEF Applied, PinApplied, Holds, OnConnection, ConnOps
<1>12. AloneIsAlone'
  <2> SUFFICES ASSUME NEW d \in Callers, NEW e \in Callers,
                      OnConnection(call'[d]), call'[d].alone,
                      OnConnection(call'[e]), call'[e].req.id = call'[d].req.id
               PROVE  d = e
    BY DEF AloneIsAlone
  <2>1. CASE d # c /\ e # c
    BY <2>1, <1>5 DEF IInv, AloneIsAlone
  <2>2. CASE d = c /\ e # c
    BY <2>2, <1>3, <1>5, <1>7, <1>8
  <2>3. CASE d # c /\ e = c
    BY <2>3, <1>3, <1>5, <1>7
  <2> QED BY <2>1, <2>2, <2>3
<1>13. CredentialKept'
  BY <1>1, <1>3, <1>5, <1>7 DEF IInv, CredentialKept
<1>14. AtKeyring'
  <2> SUFFICES ASSUME NEW d \in Callers, call'[d] # Idle, call'[d].pc = "keyring"
               PROVE  /\ call'[d].op # "save"
                      /\ call'[d].alone => /\ mem'.conns[call'[d].req.id] = call'[d].req.entry
                                           /\ disk'.conns[call'[d].req.id] = call'[d].req.entry
    BY DEF AtKeyring
  <2>1. d # c
    BY <1>3, <1>7
  <2>2. call[d] # Idle /\ call[d].pc = "keyring" /\ call'[d].op = call[d].op
    BY <2>1, <1>6
  <2>3. OnConnection(call[d]) /\ call[d].req \in ConnRequest
    BY <2>2, CallKinds DEF IInv, TypeOK, ConnCalls, PinCalls, OtherCalls, OnConnection, ConnOps
  <2>4. OnConnection(call'[d])
    BY <2>2, <2>3 DEF OnConnection
  <2> QED BY <1>1, <1>2, <1>5, <2>1, <2>2, <2>3, <2>4 DEF IInv, AtKeyring, ConnRequest
<1>15. PromiseKept'
  <2> SUFFICES ASSUME NEW j \in Ids, promised'[j] # Unsure
               PROVE  /\ mem'.conns[j] = promised'[j].entry
                      /\ disk'.conns[j] = promised'[j].entry
                      /\ keyring'[j] = promised'[j].cred
                      /\ \A d \in Callers : ~(OnConnection(call'[d]) /\ call'[d].req.id = j)
    BY DEF PromiseKept
  <2>1. j # id /\ promised'[j] = promised[j]
    BY <1>1 DEF IInv, TypeOK
  <2>2. /\ mem.conns[j] = promised[j].entry
        /\ disk.conns[j] = promised[j].entry
        /\ keyring[j] = promised[j].cred
        /\ \A d \in Callers : ~(OnConnection(call[d]) /\ call[d].req.id = j)
    BY <2>1 DEF IInv, PromiseKept
  <2> QED BY <1>1, <1>2, <1>3, <1>5, <1>7, <2>1, <2>2
<1>16. PinKept'
  BY <1>1, <1>2 DEF IInv, PinKept
<1> QED BY <1>9, <1>10, <1>11, <1>12, <1>13, <1>14, <1>15, <1>16 DEF IInv

\* A step that begins one of the other calls: the mutex is free and so is the
\* goroutine, and only a certificate or a setting of the memory changes.
LEMMA BeginOtherKeeps ==
  ASSUME IInv, NEW c \in Callers, NEW m \in Config, NEW k \in PinCalls \cup OtherCalls,
         Locked(c, m), m.conns = mem.conns, call' = [call EXCEPT ![c] = k], promised' = promised,
         accepted' \subseteq accepted,
         \A r \in accepted' : r.how = "pinned" => m.certs[r.addr] = mem.certs[r.addr],
         k.pc = "write", k.op = "pin" => m.certs[k.req.addr] = k.req.print
  PROVE  IInv'
<1>1. /\ lock = NoCaller /\ call[c] = Idle /\ lock' = c /\ mem' = m
      /\ disk' = disk /\ tmp' = tmp /\ keyring' = keyring
      /\ mem \in Config /\ mem' \in Config /\ mem'.conns = mem.conns
  BY DEF Locked, IInv, TypeOK
<1>2. \A d \in Callers : ~Holds(d)
  BY <1>1, StoreAssumption DEF IInv, LockHeld
<1>3. call'[c] = k /\ \A d \in Callers : d # c => call'[d] = call[d]
  BY DEF IInv, TypeOK
<1>4. ~OnConnection(k) /\ k \in Calls
  BY CallKinds DEF OnConnection, PinCalls, OtherCalls
<1>5. TypeOK'
  <2>1. call' \in [Callers -> Calls \cup {Idle}]
    BY <1>4 DEF IInv, TypeOK
  <2> QED BY <1>1, <2>1 DEF IInv, TypeOK
<1>6. LockHeld' /\ TmpReady'
  BY <1>1, <1>2, <1>3 DEF LockHeld, TmpReady, Holds
<1>7. Applied' /\ PinApplied'
  BY <1>1, <1>2, <1>3, <1>4 DEF Applied, PinApplied, Holds
<1>8. AloneIsAlone' /\ CredentialKept'
  BY <1>1, <1>3, <1>4 DEF IInv, AloneIsAlone, CredentialKept
<1>9. AtKeyring'
  BY <1>1, <1>3 DEF IInv, AtKeyring
<1>10. PromiseKept'
  BY <1>1, <1>3, <1>4 DEF IInv, PromiseKept
<1>11. PinKept'
  BY <1>1 DEF IInv, PinKept
<1> QED BY <1>5, <1>6, <1>7, <1>8, <1>9, <1>10, <1>11 DEF IInv

\* A call returns an error: the mutex is free again, what was written stays.
LEMMA ErrorKeeps ==
  ASSUME IInv, NEW c \in Callers, Holds(c), call' = [call EXCEPT ![c] = Idle], lock' = NoCaller,
         tmp' \in Config \cup {None, Torn}, UNCHANGED <<mem, disk, keyring, promised, accepted>>
  PROVE  IInv'
<1>1. call'[c] = Idle /\ \A d \in Callers : d # c => call'[d] = call[d]
  BY DEF IInv, TypeOK
<1>2. \A d \in Callers : d # c => ~Holds(d)
  BY DEF IInv, LockHeld
<1>3. TypeOK'
  BY DEF IInv, TypeOK
<1>4. LockHeld' /\ TmpReady' /\ Applied' /\ PinApplied'
  BY <1>1, <1>2 DEF LockHeld, TmpReady, Applied, PinApplied, Holds, OnConnection
<1>5. AloneIsAlone' /\ CredentialKept' /\ AtKeyring' /\ PromiseKept'
  BY <1>1 DEF IInv, AloneIsAlone, CredentialKept, AtKeyring, PromiseKept, OnConnection
<1>6. PinKept'
  BY DEF IInv, PinKept
<1> QED BY <1>3, <1>4, <1>5, <1>6 DEF IInv

LEMMA WriteFileKeeps ==
  ASSUME IInv, NEW c \in Callers, WriteFile(c)
  PROVE  IInv'
<1>1. Holds(c)
  BY DEF WriteFile, Holds
<1>2. CASE tmp' = mem /\ call' = [call EXCEPT ![c].pc = "rename"]
           /\ UNCHANGED <<mem, disk, keyring, lock, promised, accepted>>
  <2>1. call[c] \in Calls /\ lock = c
    BY <1>1 DEF IInv, TypeOK, LockHeld, Holds
  <2>2. call'[c] = [call[c] EXCEPT !.pc = "rename"] /\ \A d \in Callers : d # c => call'[d] = call[d]
    BY <1>2 DEF IInv, TypeOK
  <2>3. /\ call'[c] \in Calls /\ call'[c].op = call[c].op /\ call'[c].pc = "rename"
        /\ call[c] \in ConnCalls => call'[c].req = call[c].req /\ call'[c].alone = call[c].alone
        /\ call[c] \in PinCalls => call'[c].req = call[c].req
    BY <2>1, <2>2, MovedOn
  <2>4. \A d \in Callers : d # c => ~Holds(d)
    BY <2>1 DEF IInv, LockHeld
  <2>5. OnConnection(call'[c]) => OnConnection(call[c]) /\ call[c] \in ConnCalls
    BY <1>1, <2>1, <2>3, OnConnectionKind DEF OnConnection, Holds
  <2>6. call'[c].op = "pin" => call[c] \in PinCalls
    BY <2>1, <2>3, CallKinds DEF ConnCalls, OtherCalls, ConnOps
  <2>7. TypeOK'
    BY <1>2, <2>2, <2>3 DEF IInv, TypeOK
  <2>8. LockHeld' /\ TmpReady'
    BY <1>2, <2>1, <2>2, <2>4 DEF LockHeld, TmpReady, Holds
  <2>9. Applied' /\ PinApplied'
    BY <1>1, <1>2, <2>2, <2>3, <2>4, <2>5, <2>6 DEF IInv, Applied, PinApplied, Holds
  <2>10. AloneIsAlone' /\ CredentialKept'
    BY <1>2, <2>2, <2>3, <2>5 DEF IInv, AloneIsAlone, CredentialKept
  <2>11. AtKeyring'
    BY <1>2, <2>2, <2>3 DEF IInv, AtKeyring
  <2>12. PromiseKept' /\ PinKept'
    BY <1>2, <2>2, <2>3, <2>5 DEF IInv, PromiseKept, PinKept
  <2> QED BY <2>7, <2>8, <2>9, <2>10, <2>11, <2>12 DEF IInv
<1>3. CASE tmp' = Torn /\ PersistError(c) /\ UNCHANGED <<mem, disk, keyring>>
  BY <1>1, <1>3, ErrorKeeps DEF PersistError
<1> QED BY <1>2, <1>3 DEF WriteFile

\* A call returns nil: the file is the memory, and what it promises is there.
LEMMA ReturnKeeps ==
  ASSUME IInv, NEW c \in Callers, call[c] # Idle, call' = [call EXCEPT ![c] = Idle],
         Promise(call[c]), mem' = mem, disk' \in Config,
         (disk'.conns = mem.conns /\ disk'.certs = mem.certs) \/ (disk' = disk /\ OnConnection(call[c])),
         tmp' \in Config \cup {None, Torn}, keyring' \in [Ids -> Credential],
         OnConnection(call[c]) =>
           \A j \in Ids : j # call[c].req.id => keyring'[j] = keyring[j],
         ~OnConnection(call[c]) => keyring' = keyring,
         OnConnection(call[c]) /\ call[c].alone /\ call[c].op # "touch" =>
           /\ mem.conns[call[c].req.id] = call[c].req.entry
           /\ disk'.conns[call[c].req.id] = call[c].req.entry
           /\ keyring'[call[c].req.id] = call[c].req.cred,
         call[c].op = "pin" => mem.certs[call[c].req.addr] = call[c].req.print,
         (lock' = NoCaller /\ Holds(c)) \/ (lock' = lock /\ ~Holds(c) /\ tmp' = tmp)
  PROVE  IInv'
<1>1. call'[c] = Idle /\ \A d \in Callers : d # c => call'[d] = call[d]
  BY DEF IInv, TypeOK
<1>2. call[c] \in Calls
  BY DEF IInv, TypeOK
<1>3. /\ OnConnection(call[c]) => call[c].req \in ConnRequest
      /\ call[c].op = "pin" => call[c].req \in PinRequest /\ ~OnConnection(call[c])
  BY <1>2, CallKinds DEF ConnCalls, PinCalls, OtherCalls, OnConnection, ConnOps
<1>4. promised' \in [Ids -> [entry : Entries \cup {Absent}, cred : Credential] \cup {Unsure}]
  BY <1>3 DEF Promise, IInv, TypeOK, ConnRequest
<1>5. accepted' \subseteq [addr : Addrs, print : Prints, how : {"pinned", "matched"}]
  BY <1>3 DEF Promise, IInv, TypeOK, PinRequest
<1>6. TypeOK'
  BY <1>1, <1>4, <1>5 DEF IInv, TypeOK
<1>7. \A d \in Callers : Holds(d) /\ d # c => lock' = lock /\ tmp' = tmp /\ lock = d
  BY DEF IInv, LockHeld
<1>8. LockHeld' /\ TmpReady'
  BY <1>1, <1>7 DEF IInv, LockHeld, TmpReady, Holds
<1>9. Applied' /\ PinApplied'
  BY <1>1 DEF IInv, Applied, PinApplied, Holds, OnConnection
<1>10. AloneIsAlone'
  BY <1>1 DEF IInv, AloneIsAlone, OnConnection
<1>11. CredentialKept'
  <2> SUFFICES ASSUME NEW d \in Callers, OnConnection(call'[d]), call'[d].alone, call'[d].op = "save"
               PROVE  keyring'[call'[d].req.id] = call'[d].req.cred
    BY DEF CredentialKept
  <2>1. d # c /\ call'[d] = call[d]
    BY <1>1 DEF OnConnection
  <2>2. keyring[call[d].req.id] = call[d].req.cred
    BY <2>1 DEF IInv, CredentialKept
  <2>3. OnConnection(call[c]) => call[d].req.id # call[c].req.id
    BY <2>1 DEF IInv, AloneIsAlone
  <2>4. call[d].req.id \in Ids
    BY <2>1, OnConnectionKind DEF IInv, TypeOK, OnConnection, ConnCalls, ConnRequest
  <2> QED BY <2>1, <2>2, <2>3, <2>4
<1>12. AtKeyring'
  <2> SUFFICES ASSUME NEW d \in Callers, call'[d] # Idle, call'[d].pc = "keyring"
               PROVE  /\ call'[d].op # "save"
                      /\ call'[d].alone => /\ mem'.conns[call'[d].req.id] = call'[d].req.entry
                                           /\ disk'.conns[call'[d].req.id] = call'[d].req.entry
    BY DEF AtKeyring
  <2>1. call'[d] = call[d]
    BY <1>1
  <2> QED BY <2>1 DEF IInv, AtKeyring
<1>13. PromiseKept'
  <2> SUFFICES ASSUME NEW j \in Ids, promised'[j] # Unsure
               PROVE  /\ mem'.conns[j] = promised'[j].entry
                      /\ disk'.conns[j] = promised'[j].entry
                      /\ keyring'[j] = promised'[j].cred
                      /\ \A d \in Callers : ~(OnConnection(call'[d]) /\ call'[d].req.id = j)
    BY DEF PromiseKept
  <2>1. CASE OnConnection(call[c]) /\ call[c].op # "touch" /\ call[c].alone /\ j = call[c].req.id
    <3>1. promised'[j] = [entry |-> call[c].req.entry, cred |-> call[c].req.cred]
      BY <2>1 DEF Promise, IInv, TypeOK
    <3>2. \A d \in Callers : ~(OnConnection(call'[d]) /\ call'[d].req.id = j)
      BY <1>1, <2>1 DEF IInv, AloneIsAlone, OnConnection
    <3> QED BY <2>1, <3>1, <3>2
  <2>2. CASE ~(OnConnection(call[c]) /\ call[c].op # "touch" /\ call[c].alone /\ j = call[c].req.id)
    <3>1. promised'[j] = promised[j]
      BY <2>2 DEF Promise, IInv, TypeOK
    <3>2. /\ mem.conns[j] = promised[j].entry
          /\ disk.conns[j] = promised[j].entry
          /\ keyring[j] = promised[j].cred
          /\ \A d \in Callers : ~(OnConnection(call[d]) /\ call[d].req.id = j)
      BY <3>1 DEF IInv, PromiseKept
    <3>3. keyring'[j] = keyring[j]
      BY <3>2
    <3>4. \A d \in Callers : ~(OnConnection(call'[d]) /\ call'[d].req.id = j)
      BY <1>1, <3>2 DEF OnConnection
    <3> QED BY <3>1, <3>2, <3>3, <3>4
  <2> QED BY <2>1, <2>2
<1>14. PinKept'
  BY <1>3 DEF Promise, IInv, PinKept
<1> QED BY <1>6, <1>8, <1>9, <1>10, <1>11, <1>12, <1>13, <1>14 DEF IInv

LEMMA RenameKeeps ==
  ASSUME IInv, NEW c \in Callers, Rename(c)
  PROVE  IInv'
<1>1. Holds(c) /\ call[c] # Idle /\ call[c].pc = "rename" /\ mem' = mem /\ keyring' = keyring
  BY DEF Rename, Holds
<1>2. tmp = mem /\ mem \in Config /\ call[c] \in Calls
  BY <1>1 DEF IInv, TypeOK, TmpReady
<1>3. CASE /\ disk' = tmp /\ tmp' = None /\ lock' = NoCaller
           /\ call[c].op \in {"saveSecret", "delete"}
           /\ call' = [call EXCEPT ![c].pc = "keyring"]
           /\ UNCHANGED <<promised, accepted>>
  <2>1. call'[c] = [call[c] EXCEPT !.pc = "keyring"] /\ \A d \in Callers : d # c => call'[d] = call[d]
    BY <1>3 DEF IInv, TypeOK
  <2>2. /\ call'[c] \in Calls /\ call'[c].op = call[c].op /\ call'[c].pc = "keyring"
        /\ call'[c].req = call[c].req /\ call'[c].alone = call[c].alone
        /\ OnConnection(call[c])
    BY <1>1, <1>2, <1>3, <2>1, ToKeyring DEF OnConnection
  <2>3. disk' = mem
    BY <1>2, <1>3
  <2>4. \A d \in Callers : d # c => ~Holds(d)
    BY <1>1 DEF IInv, LockHeld
  <2>5. TypeOK'
    BY <1>1, <1>2, <1>3, <2>1, <2>2 DEF IInv, TypeOK
  <2>6. LockHeld' /\ TmpReady' /\ Applied' /\ PinApplied'
    BY <2>1, <2>2, <2>4 DEF LockHeld, TmpReady, Applied, PinApplied, Holds
  <2>7. AloneIsAlone' /\ CredentialKept'
    <3>1. \A d \in Callers : OnConnection(call'[d]) =>
             /\ OnConnection(call[d]) /\ call'[d].op = call[d].op
             /\ call'[d].req = call[d].req /\ call'[d].alone = call[d].alone
      BY <2>1, <2>2
    <3> QED BY <1>1, <3>1 DEF IInv, AloneIsAlone, CredentialKept
  <2>8. AtKeyring'
    <3> SUFFICES ASSUME NEW d \in Callers, call'[d] # Idle, call'[d].pc = "keyring"
                 PROVE  /\ call'[d].op # "save"
                        /\ call'[d].alone => mem.conns[call'[d].req.id] = call'[d].req.entry
      BY <1>1, <2>3 DEF AtKeyring
    <3>1. CASE d = c
      BY <1>1, <1>3, <2>2, <3>1 DEF IInv, Applied
    <3>2. CASE d # c
      BY <2>1, <3>2 DEF IInv, AtKeyring
    <3> QED BY <3>1, <3>2
  <2>9. PromiseKept' /\ PinKept'
    BY <1>1, <1>3, <2>1, <2>2, <2>3 DEF IInv, PromiseKept, PinKept
  <2> QED BY <2>5, <2>6, <2>7, <2>8, <2>9 DEF IInv
<1>4. CASE /\ disk' = tmp /\ tmp' = None /\ lock' = NoCaller
           /\ call[c].op \notin {"saveSecret", "delete"}
           /\ call' = [call EXCEPT ![c] = Idle]
           /\ Promise(call[c])
  <2>1. keyring' \in [Ids -> Credential]
    BY <1>1 DEF IInv, TypeOK
  <2>2. OnConnection(call[c]) => mem.conns[call[c].req.id] = call[c].req.entry
    BY <1>1 DEF IInv, Applied
  <2>3. OnConnection(call[c]) /\ call[c].alone /\ call[c].op # "touch" =>
           keyring[call[c].req.id] = call[c].req.cred
    BY <1>4 DEF IInv, CredentialKept, OnConnection
  <2>4. call[c].op = "pin" => mem.certs[call[c].req.addr] = call[c].req.print
    BY <1>1 DEF IInv, PinApplied
  <2>5. disk' = mem /\ disk' \in Config /\ disk'.conns = mem.conns /\ disk'.certs = mem.certs
    BY <1>2, <1>4
  <2>6. tmp' \in Config \cup {None, Torn} /\ lock' = NoCaller
    BY <1>4
  <2>7. /\ OnConnection(call[c]) =>
             \A j \in Ids : j # call[c].req.id => keyring'[j] = keyring[j]
        /\ OnConnection(call[c]) /\ call[c].alone /\ call[c].op # "touch" =>
             /\ mem.conns[call[c].req.id] = call[c].req.entry
             /\ disk'.conns[call[c].req.id] = call[c].req.entry
             /\ keyring'[call[c].req.id] = call[c].req.cred
    BY <1>1, <2>2, <2>3, <2>5
  <2>8. call' = [call EXCEPT ![c] = Idle] /\ Promise(call[c])
    BY <1>4
  <2>9. (disk'.conns = mem.conns /\ disk'.certs = mem.certs) \/ (disk' = disk /\ OnConnection(call[c]))
    BY <2>5
  <2>10. (lock' = NoCaller /\ Holds(c)) \/ (lock' = lock /\ ~Holds(c) /\ tmp' = tmp)
    BY <1>1, <2>6
  <2> QED BY <1>1, <2>1, <2>4, <2>5, <2>6, <2>7, <2>8, <2>9, <2>10, ReturnKeeps
<1>5. CASE PersistError(c) /\ UNCHANGED <<disk, tmp>>
  <2>1. tmp' \in Config \cup {None, Torn}
    BY <1>5 DEF IInv, TypeOK
  <2> QED BY <1>1, <1>5, <2>1, ErrorKeeps DEF PersistError
<1> QED BY <1>3, <1>4, <1>5 DEF Rename

LEMMA WriteKeyringKeeps ==
  ASSUME IInv, NEW c \in Callers, WriteKeyring(c)
  PROVE  IInv'
<1>1. /\ call[c] # Idle /\ call[c].pc = "keyring" /\ ~Holds(c)
      /\ call' = [call EXCEPT ![c] = Idle]
      /\ mem' = mem /\ disk' = disk /\ tmp' = tmp /\ lock' = lock
  BY DEF WriteKeyring, Holds
<1>2. call[c] \in ConnCalls /\ OnConnection(call[c]) /\ call[c].req \in ConnRequest
  BY <1>1, CallKinds DEF IInv, TypeOK, ConnCalls, PinCalls, OtherCalls, OnConnection, ConnOps
<1>3. CASE keyring' = [keyring EXCEPT ![call[c].req.id] = call[c].req.cred] /\ Promise(call[c])
  <2>1. /\ keyring' \in [Ids -> Credential]
        /\ keyring'[call[c].req.id] = call[c].req.cred
        /\ \A j \in Ids : j # call[c].req.id => keyring'[j] = keyring[j]
    BY <1>2, <1>3 DEF IInv, TypeOK, ConnRequest
  <2>2. /\ call[c].alone => /\ mem.conns[call[c].req.id] = call[c].req.entry
                            /\ disk.conns[call[c].req.id] = call[c].req.entry
    BY <1>1 DEF IInv, AtKeyring
  <2>3. disk' \in Config /\ tmp' \in Config \cup {None, Torn} /\ call[c].op # "pin"
    BY <1>1, <1>2 DEF IInv, TypeOK, ConnCalls, ConnOps
  <2> QED BY <1>1, <1>2, <1>3, <2>1, <2>2, <2>3, ReturnKeeps
<1>4. CASE UNCHANGED <<keyring, promised, accepted>>
  <2>1. call'[c] = Idle /\ \A d \in Callers : d # c => call'[d] = call[d]
    BY <1>1 DEF IInv, TypeOK
  <2>2. TypeOK'
    BY <1>1, <1>4 DEF IInv, TypeOK
  <2>3. LockHeld' /\ TmpReady' /\ Applied' /\ PinApplied'
    BY <1>1, <2>1 DEF IInv, LockHeld, TmpReady, Applied, PinApplied, Holds, OnConnection
  <2>4. AloneIsAlone' /\ CredentialKept' /\ AtKeyring' /\ PromiseKept' /\ PinKept'
    BY <1>1, <1>4, <2>1 DEF IInv, AloneIsAlone, CredentialKept, AtKeyring, PromiseKept, PinKept,
                           OnConnection
  <2> QED BY <2>2, <2>3, <2>4 DEF IInv
<1> QED BY <1>3, <1>4 DEF WriteKeyring

LEMMA MatchKeeps ==
  ASSUME IInv, Match
  PROVE  IInv'
<1>1. UNCHANGED <<mem, disk, tmp, keyring, lock, call, promised>>
  BY DEF Match
<1>2. PICK a \in Addrs : /\ mem.certs[a] # Absent
                         /\ accepted' = accepted \cup {[addr |-> a, print |-> mem.certs[a],
                                                        how |-> "matched"]}
  BY DEF Match
<1>3. mem.certs[a] \in Prints
  BY <1>2 DEF IInv, TypeOK, Config
<1>4. TypeOK'
  BY <1>1, <1>2, <1>3 DEF IInv, TypeOK
<1>5. PinKept'
  BY <1>1, <1>2 DEF IInv, PinKept
<1>6. LockHeld' /\ TmpReady' /\ Applied' /\ PinApplied'
  BY <1>1 DEF IInv, LockHeld, TmpReady, Applied, PinApplied, Holds
<1>7. AloneIsAlone' /\ CredentialKept' /\ AtKeyring' /\ PromiseKept'
  BY <1>1 DEF IInv, AloneIsAlone, CredentialKept, AtKeyring, PromiseKept
<1> QED BY <1>4, <1>5, <1>6, <1>7 DEF IInv

LEMMA CrashKeeps ==
  ASSUME IInv, Crash
  PROVE  IInv'
<1>1. \A c \in Callers : call'[c] = Idle
  BY DEF Crash
<1>2. TypeOK'
  BY DEF Crash, IInv, TypeOK
<1>3. LockHeld' /\ TmpReady' /\ Applied' /\ PinApplied' /\ AloneIsAlone' /\ CredentialKept' /\ AtKeyring'
  BY <1>1 DEF LockHeld, TmpReady, Applied, PinApplied, AloneIsAlone, CredentialKept, AtKeyring,
              Holds, OnConnection
<1>4. PromiseKept' /\ PinKept'
  BY <1>1 DEF Crash, IInv, PromiseKept, PinKept, OnConnection
<1> QED BY <1>2, <1>3, <1>4 DEF IInv

-----------------------------------------------------------------------------
(* The behaviours.                                                         *)

LEMMA InitHolds == Init => IInv
<1> SUFFICES ASSUME Init PROVE IInv
  OBVIOUS
<1>1. TypeOK
  BY DEF Init, TypeOK, Config, Credential
<1>2. IInv
  BY <1>1 DEF Init, IInv, LockHeld, TmpReady, Applied, PinApplied, AloneIsAlone, CredentialKept,
              AtKeyring, PromiseKept, PinKept, Holds, OnConnection
<1> QED BY <1>2

LEMMA NextKeeps == IInv /\ [Next]_vars => IInv'
<1> SUFFICES ASSUME IInv, [Next]_vars PROVE IInv'
  OBVIOUS
<1>1. mem \in Config /\ keyring \in [Ids -> Credential]
  BY DEF IInv, TypeOK
<1>2. ASSUME NEW c \in Callers, Save(c) PROVE IInv'
  <2>1. PICK id \in Ids, entry \in Entries, password \in Passwords \cup {NoPassword} :
          IF password = NoPassword
          THEN BeginOn(c, "save", id, entry, keyring[id])
          ELSE BeginOn(c, "saveSecret", id, entry, password)
    BY <1>2 DEF Save
  <2>2. keyring[id] \in Credential
    BY <1>1
  <2>3. password # NoPassword => password \in Credential
    BY DEF Credential
  <2>4. {"save", "saveSecret"} \subseteq ConnOps
    BY DEF ConnOps
  <2>5. CASE password = NoPassword
    BY <2>1, <2>2, <2>4, <2>5, BeginKeeps
  <2>6. CASE password # NoPassword
    BY <2>1, <2>3, <2>4, <2>6, BeginKeeps
  <2> QED BY <2>5, <2>6
<1>3. ASSUME NEW c \in Callers, Delete(c) PROVE IInv'
  <2>1. "delete" \in ConnOps /\ Absent \in Credential
    BY DEF ConnOps, Credential
  <2> QED BY <1>3, <2>1, BeginKeeps DEF Delete
<1>4. ASSUME NEW c \in Callers, TouchLastUsed(c) PROVE IInv'
  <2>1. "touch" \in ConnOps /\ \A id \in Ids : keyring[id] \in Credential
    BY <1>1 DEF ConnOps
  <2> QED BY <1>4, <2>1, BeginKeeps DEF TouchLastUsed
<1>5. ASSUME NEW c \in Callers, Set(c) PROVE IInv'
  <2> DEFINE k == [op |-> "set", pc |-> "write"]
  <2>1. PICK s \in Settings : /\ Locked(c, [mem EXCEPT !.setting = s])
                              /\ call' = [call EXCEPT ![c] = k]
                              /\ UNCHANGED <<promised, accepted>>
    BY <1>5 DEF Set
  <2> DEFINE m == [mem EXCEPT !.setting = s]
  <2>2. m \in Config /\ m.conns = mem.conns /\ m.certs = mem.certs
    BY <1>1 DEF Config
  <2>3. k \in PinCalls \cup OtherCalls /\ k.pc = "write" /\ k.op # "pin"
    BY DEF OtherCalls
  <2> HIDE DEF k
  <2> QED BY <2>1, <2>2, <2>3, BeginOtherKeeps
<1>6. ASSUME NEW c \in Callers, Pin(c) PROVE IInv'
  <2>1. PICK a \in Addrs, p \in Prints :
           /\ mem.certs[a] = Absent
           /\ Locked(c, [mem EXCEPT !.certs[a] = p])
           /\ call' = [call EXCEPT ![c] =
                         [op |-> "pin", req |-> [addr |-> a, print |-> p], pc |-> "write"]]
           /\ UNCHANGED <<promised, accepted>>
    BY <1>6 DEF Pin
  <2> DEFINE k == [op |-> "pin", req |-> [addr |-> a, print |-> p], pc |-> "write"]
             m == [mem EXCEPT !.certs[a] = p]
  <2>2. m \in Config /\ m.conns = mem.conns /\ m.certs[a] = p
        /\ \A b \in Addrs : b # a => m.certs[b] = mem.certs[b]
    BY <1>1 DEF Config
  <2>3. k \in PinCalls /\ k.pc = "write" /\ k.req.addr = a /\ k.req.print = p
    BY DEF PinCalls, PinRequest
  <2>4. \A r \in accepted : r.how = "pinned" => r.addr # a
    BY <2>1, StoreAssumption DEF IInv, TypeOK, PinKept
  <2>5. \A r \in accepted : r.how = "pinned" => m.certs[r.addr] = mem.certs[r.addr]
    BY <2>2, <2>4 DEF IInv, TypeOK
  <2>6. call' = [call EXCEPT ![c] = k] /\ Locked(c, m) /\ promised' = promised /\ accepted' = accepted
    BY <2>1
  <2> HIDE DEF k, m
  <2> QED BY <2>2, <2>3, <2>5, <2>6, BeginOtherKeeps
<1>7. ASSUME NEW c \in Callers, ForgetCertificate(c) PROVE IInv'
  <2>1. PICK a \in Addrs :
           /\ Locked(c, [mem EXCEPT !.certs[a] = Absent])
           /\ call' = [call EXCEPT ![c] = [op |-> "forget", pc |-> "write"]]
           /\ accepted' = {r \in accepted : r.addr # a}
           /\ promised' = promised
    BY <1>7 DEF ForgetCertificate
  <2> DEFINE k == [op |-> "forget", pc |-> "write"]
             m == [mem EXCEPT !.certs[a] = Absent]
  <2>2. m \in Config /\ m.conns = mem.conns
        /\ \A b \in Addrs : b # a => m.certs[b] = mem.certs[b]
    BY <1>1 DEF Config
  <2>3. k \in PinCalls \cup OtherCalls /\ k.pc = "write" /\ k.op # "pin"
    BY DEF OtherCalls
  <2>4. accepted' \subseteq accepted /\ \A r \in accepted' : m.certs[r.addr] = mem.certs[r.addr]
    BY <2>1, <2>2 DEF IInv, TypeOK
  <2>5. call' = [call EXCEPT ![c] = k] /\ Locked(c, m) /\ promised' = promised
    BY <2>1
  <2> HIDE DEF k, m
  <2> QED BY <2>2, <2>3, <2>4, <2>5, BeginOtherKeeps
<1>8. CASE UNCHANGED vars
  BY <1>8 DEF vars, IInv, TypeOK, LockHeld, TmpReady, Applied, PinApplied, AloneIsAlone,
              CredentialKept, AtKeyring, PromiseKept, PinKept, Holds
<1> QED BY <1>2, <1>3, <1>4, <1>5, <1>6, <1>7, <1>8,
           WriteFileKeeps, RenameKeeps, WriteKeyringKeeps, MatchKeeps, CrashKeeps DEF Next

\* The invariant holds of every behaviour.
THEOREM InvariantHolds == Spec => []IInv
<1> QED BY InitHolds, NextKeeps, PTL DEF Spec

\* Memory, files, keyring, mutex and calls have the shapes TypeOK gives.
THEOREM TypeCorrect == Spec => []TypeOK
<1>1. IInv => TypeOK
  BY DEF IInv
<1> QED BY <1>1, InvariantHolds, PTL

\* What an undisturbed Save or Delete acknowledged is on the disk and in the
\* keyring until the next call on its connection, through every failure,
\* crash and call on anything else (Save, Delete and persistLocked).
THEOREM AcknowledgedLasts == Spec => []AckDurable
<1>1. IInv => AckDurable
  BY DEF IInv, PromiseKept, AckDurable
<1> QED BY <1>1, InvariantHolds, PTL

\* A certificate whose pinning was acknowledged is the one compared with,
\* before and after restarts, until it is forgotten
\* (VerifyOrTrustCertificate and ForgetCertificate).
THEOREM PinsLast == Spec => []PinDurable
<1>1. IInv => PinDurable
  BY DEF IInv, PinKept, PinDurable
<1> QED BY <1>1, InvariantHolds, PTL

=============================================================================
