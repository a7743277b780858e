----------------------------- MODULE ConnStore -----------------------------
(***************************************************************************)
(* The connection store (internal/store/store.go): the connection list,    *)
(* the settings and the pinned RDP certificates live in memory under one   *)
(* mutex and are written as a whole to a JSON file, through a temporary    *)
(* file and a rename.  Passwords live in the operating system's keyring,   *)
(* which is written after the mutex is released.                           *)
(*                                                                         *)
(* Calls come from goroutines: one per call of the frontend, and the dial  *)
(* of every session (VerifyOrTrustCertificate).  A call that waits for the *)
(* mutex has had no effect yet, so it begins here with the step that takes *)
(* the mutex and changes the memory.  The process may stop at any step.    *)
(*                                                                         *)
(* A connection's metadata is one abstract value (an Entry): LastUsed is   *)
(* part of it.  The order of the list is left out.  Reads (List, Password, *)
(* Theme, ...) change nothing and have no action.                          *)
(***************************************************************************)
EXTENDS Integers

CONSTANTS
    Ids,            \* connection identifiers
    Entries,        \* what a connection's metadata can be
    Passwords,
    Addrs, Prints,  \* "host:port" addresses and certificate fingerprints
    Settings,       \* theme, quality and language
    Callers,        \* goroutines that may be in a call at once
    Absent, NoPassword, NoCaller, None, Torn, Unsure, Idle,
    DiskFails,      \* WriteFile and Rename may fail
    KeyringFails,   \* the keyring may refuse
    Crashes         \* the process may stop and start again

ASSUME StoreAssumption ==
    /\ {DiskFails, KeyringFails, Crashes} \subseteq BOOLEAN
    /\ Absent \notin Entries \cup Passwords \cup Prints
    /\ NoPassword \notin Passwords
    /\ NoCaller \notin Callers
    /\ Settings # {}

VARIABLES
    mem,            \* Store.data
    disk,           \* config.json
    tmp,            \* config.json.tmp
    keyring,        \* the credential of each identifier
    lock,           \* Store.mu
    call,           \* what each goroutine is doing
    promised,       \* history: what the last call on an identifier promised
    accepted        \* history: the certificates accepted since they were forgotten

vars == <<mem, disk, tmp, keyring, lock, call, promised, accepted>>

-----------------------------------------------------------------------------
\* fileData.
Config == [conns : [Ids -> Entries \cup {Absent}],
           certs : [Addrs -> Prints \cup {Absent}],
           setting : Settings]

Credential == Passwords \cup {Absent}

\* What a call will promise if it succeeds: the connection's entry and its
\* credential (calls on a connection), or the certificate it pins.
ConnRequest == [id : Ids, entry : Entries \cup {Absent}, cred : Credential]
PinRequest == [addr : Addrs, print : Prints]

\* A call holds the mutex at "write" and "rename", and no longer at "keyring".
\* `alone': no other call on the same connection overlapped it.
Calls ==
    [op : {"save", "saveSecret", "delete", "touch"}, req : ConnRequest,
     pc : {"write", "rename", "keyring"}, alone : BOOLEAN]
    \cup [op : {"pin"}, req : PinRequest, pc : {"write", "rename"}]
    \cup [op : {"forget", "set"}, pc : {"write", "rename"}]

TypeOK ==
    /\ mem \in Config
    /\ disk \in Config
    /\ tmp \in Config \cup {None, Torn}
    /\ keyring \in [Ids -> Credential]
    /\ lock \in Callers \cup {NoCaller}
    /\ call \in [Callers -> Calls \cup {Idle}]
    /\ promised \in [Ids -> [entry : Entries \cup {Absent}, cred : Credential] \cup {Unsure}]
    /\ accepted \subseteq [addr : Addrs, print : Prints, how : {"pinned", "matched"}]

\* Open without a config file.
Init ==
    /\ \E s \in Settings :
          mem = [conns |-> [i \in Ids |-> Absent], certs |-> [a \in Addrs |-> Absent],
                 setting |-> s]
    /\ disk = mem
    /\ tmp = None
    /\ keyring = [i \in Ids |-> Absent]
    /\ lock = NoCaller
    /\ call = [c \in Callers |-> Idle]
    /\ promised = [i \in Ids |-> Unsure]
    /\ accepted = {}

-----------------------------------------------------------------------------
OnConnection(k) == k # Idle /\ k.op \in {"save", "saveSecret", "delete", "touch"}
InFlightOn(id) == {c \in Callers : OnConnection(call[c]) /\ call[c].req.id = id}

\* Goroutine c has the mutex and has made the memory m.
Locked(c, m) ==
    /\ lock = NoCaller /\ call[c] = Idle
    /\ lock' = c
    /\ mem' = m
    /\ UNCHANGED <<disk, tmp, keyring>>

\* It did so for a call on connection id that promises `entry' and `cred'.
BeginOn(c, op, id, entry, cred) ==
    /\ Locked(c, [mem EXCEPT !.conns[id] = entry])
    /\ call' = [d \in Callers |->
                  IF d = c
                  THEN [op |-> op, req |-> [id |-> id, entry |-> entry, cred |-> cred],
                        pc |-> "write", alone |-> InFlightOn(id) = {}]
                  ELSE IF d \in InFlightOn(id) THEN [call[d] EXCEPT !.alone = FALSE]
                  ELSE call[d]]
    /\ promised' = [promised EXCEPT ![id] = Unsure]
    /\ UNCHANGED accepted

\* Save inserts or replaces the connection: a new identifier and one of the
\* list are treated alike.  Without a password the credential stays as it is.
Save(c) ==
    \E id \in Ids, entry \in Entries, password \in Passwords \cup {NoPassword} :
        IF password = NoPassword
        THEN BeginOn(c, "save", id, entry, keyring[id])
        ELSE BeginOn(c, "saveSecret", id, entry, password)

Delete(c) == \E id \in Ids : BeginOn(c, "delete", id, Absent, Absent)

\* TouchLastUsed stamps the entry, which gives some other entry.
TouchLastUsed(c) ==
    \E id \in Ids, entry \in Entries :
        /\ mem.conns[id] # Absent
        /\ BeginOn(c, "touch", id, entry, keyring[id])

\* SetTheme, SetVNCQuality, SetLanguage.
Set(c) ==
    \E s \in Settings :
        /\ Locked(c, [mem EXCEPT !.setting = s])
        /\ call' = [call EXCEPT ![c] = [op |-> "set", pc |-> "write"]]
        /\ UNCHANGED <<promised, accepted>>

\* VerifyOrTrustCertificate on an address that has no pin yet.
\* (The mutant accepts at once and leaves the file to the next write.)
PinWithoutPersist(c) ==
    \E a \in Addrs, p \in Prints :
        /\ lock = NoCaller /\ call[c] = Idle
        /\ mem.certs[a] = Absent
        /\ mem' = [mem EXCEPT !.certs[a] = p]
        /\ accepted' = accepted \cup {[addr |-> a, print |-> p, how |-> "pinned"]}
        /\ UNCHANGED <<disk, tmp, keyring, lock, call, promised>>
Pin(c) ==
    \E a \in Addrs, p \in Prints :
        /\ mem.certs[a] = Absent
        /\ Locked(c, [mem EXCEPT !.certs[a] = p])
        /\ call' = [call EXCEPT ![c] =
                      [op |-> "pin", req |-> [addr |-> a, print |-> p], pc |-> "write"]]
        /\ UNCHANGED <<promised, accepted>>

\* VerifyOrTrustCertificate on an address with a pin: the call accepts the
\* pinned fingerprint in one step.  It rejects another one and changes nothing.
Match ==
    \E a \in Addrs :
        /\ lock = NoCaller
        /\ mem.certs[a] # Absent
        /\ accepted' = accepted \cup {[addr |-> a, print |-> mem.certs[a], how |-> "matched"]}
        /\ UNCHANGED <<mem, disk, tmp, keyring, lock, call, promised>>

\* ForgetCertificate: whatever comes next may be trusted.
ForgetCertificate(c) ==
    \E a \in Addrs :
        /\ Locked(c, [mem EXCEPT !.certs[a] = Absent])
        /\ call' = [call EXCEPT ![c] = [op |-> "forget", pc |-> "write"]]
        /\ accepted' = {r \in accepted : r.addr # a}
        /\ UNCHANGED promised

-----------------------------------------------------------------------------
\* The call returns nil: its promise stands if it was alone on its connection.
Promise(k) ==
    /\ promised' = IF OnConnection(k) /\ k.op # "touch" /\ k.alone
                   THEN [promised EXCEPT ![k.req.id] =
                           [entry |-> k.req.entry, cred |-> k.req.cred]]
                   ELSE promised
    /\ accepted' = IF k.op = "pin"
                   THEN accepted \cup {[addr |-> k.req.addr, print |-> k.req.print,
                                        how |-> "pinned"]}
                   ELSE accepted

\* persistLocked returns an error and so does the call.  The memory keeps what
\* the call changed.  (The first mutant drops the error, the second returns
\* before the Unlock.)
PersistErrorDropped(c) ==
    /\ lock' = NoCaller
    /\ call' = [call EXCEPT ![c] = Idle]
    /\ Promise(call[c])
PersistErrorKeepsLock(c) ==
    /\ call' = [call EXCEPT ![c] = Idle]
    /\ UNCHANGED <<lock, promised, accepted>>
PersistError(c) ==
    /\ lock' = NoCaller
    /\ call' = [call EXCEPT ![c] = Idle]
    /\ UNCHANGED <<promised, accepted>>

\* persistLocked: os.WriteFile of the temporary file.
\* (The mutant writes config.json itself.)
WriteFileInPlace(c) ==
    /\ call[c] # Idle /\ call[c].pc = "write"
    /\ \/ /\ disk' = mem
          /\ call' = [call EXCEPT ![c].pc = "rename"]
          /\ UNCHANGED <<lock, promised, accepted>>
       \/ /\ DiskFails
          /\ disk' = Torn
          /\ PersistError(c)
    /\ tmp' = mem
    /\ UNCHANGED <<mem, keyring>>
WriteFile(c) ==
    /\ call[c] # Idle /\ call[c].pc = "write"
    /\ \/ /\ tmp' = mem
          /\ call' = [call EXCEPT ![c].pc = "rename"]
          /\ UNCHANGED <<lock, promised, accepted>>
       \/ /\ DiskFails
          /\ tmp' = Torn
          /\ PersistError(c)
    /\ UNCHANGED <<mem, disk, keyring>>

\* persistLocked: os.Rename, then Unlock.  Save with a password and Delete go
\* on to the keyring, every other call returns.
Rename(c) ==
    /\ call[c] # Idle /\ call[c].pc = "rename"
    /\ \/ /\ disk' = tmp
          /\ tmp' = None
          /\ lock' = NoCaller
          /\ IF call[c].op \in {"saveSecret", "delete"}
             THEN /\ call' = [call EXCEPT ![c].pc = "keyring"]
                  /\ UNCHANGED <<promised, accepted>>
             ELSE /\ call' = [call EXCEPT ![c] = Idle]
                  /\ Promise(call[c])
       \/ /\ DiskFails
          /\ PersistError(c)
          /\ UNCHANGED <<disk, tmp>>
    /\ UNCHANGED <<mem, keyring>>

\* keyring.Set and keyring.Delete, without the mutex; a missing credential
\* (ErrNotFound) is no error.
WriteKeyring(c) ==
    /\ call[c] # Idle /\ call[c].pc = "keyring"
    /\ call' = [call EXCEPT ![c] = Idle]
    /\ \/ /\ keyring' = [keyring EXCEPT ![call[c].req.id] = call[c].req.cred]
          /\ Promise(call[c])
       \/ /\ KeyringFails
          /\ UNCHANGED <<keyring, promised, accepted>>
    /\ UNCHANGED <<mem, disk, tmp, lock>>

\* The process stops, possibly in the middle of a write, and Open reads the
\* file when it starts again.
Crash ==
    /\ Crashes
    /\ mem' = disk
    /\ tmp' \in {tmp, Torn}
    /\ lock' = NoCaller
    /\ call' = [c \in Callers |-> Idle]
    /\ UNCHANGED <<disk, keyring, promised, accepted>>

Step(c) == WriteFile(c) \/ Rename(c) \/ WriteKeyring(c)

Next ==
    \/ \E c \in Callers : \/ Save(c) \/ Delete(c) \/ TouchLastUsed(c) \/ Set(c)
                          \/ Pin(c) \/ ForgetCertificate(c)
                          \/ WriteFile(c) \/ Rename(c) \/ WriteKeyring(c)
    \/ Match
    \/ Crash

Spec == Init /\ [][Next]_vars

\* A goroutine that has begun a call goes on with it.
FairSpec == Spec /\ \A c \in Callers : WF_vars(Step(c))

-----------------------------------------------------------------------------
\* A Save or Delete that returned nil, and that no other call on the same
\* connection overlapped, is on the disk and in the keyring until the next
\* call on that connection, whatever other calls, failures and crashes follow.
AckDurable ==
    \A id \in Ids :
        promised[id] # Unsure =>
            /\ disk.conns[id] = promised[id].entry
            /\ keyring[id] = promised[id].cred

\* A certificate whose pinning call returned nil is the one later calls are
\* compared with, in this run of the process and after a restart, until it is
\* forgotten (VerifyOrTrustCertificate).
PinDurable ==
    \A r \in accepted : r.how = "pinned" => mem.certs[r.addr] = r.print

\* "The first fingerprint seen for addr is pinned and persisted; every later
\* call for the same addr must match it exactly" (store.go:234-236): no two
\* fingerprints are accepted for one address unless it was forgotten between.
OneFingerprint ==
    \A r, s \in accepted : r.addr = s.addr => r.print = s.print

\* Every path through a call releases the mutex, the error paths included.
LockFreed == lock # NoCaller ~> lock = NoCaller
=============================================================================
