------------------------------ MODULE Machines ------------------------------
(***************************************************************************)
(* The phone's list of machines: the list in memory (App.tsx), the JSON    *)
(* file, and the tokens in the Keychain (machines.ts).  Every change of    *)
(* the list starts a write that nobody waits for; the system may end the   *)
(* App at any time; a new build may bring secure storage with it or be     *)
(* without it, and a write to it may fail.                                 *)
(*                                                                         *)
(* The list is a set of records: what applyIdentity and upsert find is the *)
(* only record with that id or address (Unique).                           *)
(***************************************************************************)
EXTENDS Phone, Naturals, Sequences, FiniteSets

CONSTANTS Id, TokenOf,   \* TokenOf: the pairing token of each machine
          MaxWrites,     \* bound: writes that wait
          MaxEvents      \* bound: what users, networks and the system do

ASSUME Limits == MaxWrites \in Nat /\ MaxEvents \in Nat
ASSUME NoneIsNew == None \notin Address \cup Id \cup {TokenOf[i] : i \in Id}
PairingToken == {TokenOf[i] : i \in Id}

VARIABLES
  host,      \* which machine answers at each address (DHCP), or None
  list,      \* the App's `machines'
  loading,   \* loadMachines: "reading" the file, "read", or "no" more
  text,      \* the list that loadMachines has read from the file
  found,     \* addresses that mDNS has resolved
  file,      \* cato-machines.json
  fileQ,     \* lists on their way to the file, in order
  keychain,  \* the Keychain's tokens
  keyQ,      \* tokens on their way to the Keychain, in order
  secure,    \* _secure: what secureOk() answers
  welcomed,  \* history: machines whose pairing was confirmed by a welcome
  moved,     \* history: those of them whose token a storage that came later lacks
  events     \* the bound's counter

store == <<file, fileQ, keychain, keyQ>>
ghost == <<welcomed, moved>>
machinesVars == <<host, list, loading, text, found, store, secure, ghost, events>>

Machine == [address : Address, id : Id \cup {None}, token : PairingToken \cup {None}]
Lists == SUBSET Machine
New(a) == [address |-> a, id |-> None, token |-> None]
At(l, a) == {m \in l : m.address = a}
Of(l, i) == {m \in l : m.id = i}
IdsOf(l) == {m.id : m \in l} \cap Id
Held(l) == {i \in Id : \E m \in l : m.id = i /\ m.token = TokenOf[i]}
The(ms) == CHOOSE m \in ms : TRUE
-----------------------------------------------------------------------------
(* machines.ts: the functions on lists.                                    *)
Upsert(l, a, t) ==  \* a token, or None where the update brings none
  LET old == IF At(l, a) = {} THEN New(a) ELSE The(At(l, a))
  IN (l \ At(l, a)) \cup {[old EXCEPT !.token = IF t = None THEN @ ELSE t]}

Readdress(l, a, i) ==  \* mutant: another machine's record at the address stays
  LET prev == IF Of(l, i) # {} THEN The(Of(l, i)) ELSE New(a)
  IN (l \ Of(l, i)) \cup {[prev EXCEPT !.address = a, !.id = i]}

ApplyIdentity(l, a, i) ==
  LET prev == IF Of(l, i) # {} THEN The(Of(l, i))
              ELSE IF At(l, a) # {} THEN The(At(l, a)) ELSE New(a)
  IN (l \ (Of(l, i) \cup At(l, a))) \cup {[prev EXCEPT !.address = a, !.id = i]}

Stripped(l) == {[m EXCEPT !.token = None] : m \in l}
AlwaysStripped(l) == Stripped(l)  \* mutant: `keep' is forgotten
Saved(l) == IF secure THEN Stripped(l) ELSE l   \* what saveMachines(l) writes

WithTokens(l) ==  \* loadMachines: the Keychain's token, else the file's
  {[m EXCEPT !.token = IF secure /\ m.id # None /\ keychain[m.id] # None
                       THEN keychain[m.id] ELSE @] : m \in l}
-----------------------------------------------------------------------------
MachinesInit ==
  /\ host \in [Address -> Id \cup {None}]
  /\ \A a, b \in Address : host[a] = host[b] /\ host[a] # None => a = b
  /\ list = {} /\ loading = "reading" /\ text = {} /\ found = {}
  /\ file = {} /\ fileQ = <<>> /\ keychain = [i \in Id |-> None] /\ keyQ = <<>>
  /\ secure \in BOOLEAN
  /\ welcomed = {} /\ moved = {} /\ events = 0

Event == events < MaxEvents /\ events' = events + 1

SetMachines(l) ==  \* setMachines(prev => next), and saveMachines(next)
  /\ Len(fileQ) < MaxWrites
  /\ list' = l
  /\ fileQ' = Append(fileQ, Saved(l))

Paired(ids) == welcomed' = ids /\ moved' = moved \cap ids

(* What a start of the App finds of machine i: the Keychain's token, else  *)
(* the file's.                                                             *)
Known(i) == \E n \in file : n.id = i /\ TokenOf[i] = IF keychain[i] # None THEN keychain[i] ELSE n.token

(* A list is saved before the one in the file was loaded.                  *)
Early == loading # "no" /\ list # {}
-----------------------------------------------------------------------------
(* The App.                                                                *)
LoadRead ==  \* the file is read; the tokens are asked for one by one
  /\ loading = "reading"
  /\ loading' = "read" /\ text' = file
  /\ UNCHANGED <<host, list, found, store, secure, ghost, events>>

LoadDone ==  \* setMachines(list): replaces what was learned meanwhile
  /\ loading = "read"
  /\ loading' = "no"
  /\ list' = WithTokens(text)
  /\ Paired(IF Early THEN {} ELSE welcomed)
  /\ UNCHANGED <<host, text, found, store, secure, events>>

Discover(a) ==  \* useDiscovery: mDNS resolves a service
  /\ host[a] # None /\ a \notin found
  /\ found' = found \cup {a}
  /\ UNCHANGED <<host, list, loading, text, store, secure, ghost, events>>

AllMachines == {m.address : m \in list} \cup found  \* allMachines

FetchInfo(a) == host[a]  \* GET /info: who is there, or no answer

LearnInfo(a) ==  \* of a listed machine, from the list or a tap
  /\ a \in AllMachines
  /\ SetMachines(IF FetchInfo(a) = None THEN Upsert(list, a, None)
                 ELSE ApplyIdentity(list, a, FetchInfo(a)))
  /\ list' # list
  /\ Paired(welcomed \ (IdsOf(list) \ IdsOf(list')))  \* another has the address now
  /\ UNCHANGED <<host, loading, text, found, file, keychain, keyQ, secure, events>>

AddToList(a) ==
  /\ Event /\ a \notin {m.address : m \in list}
  /\ SetMachines(Upsert(list, a, None))
  /\ UNCHANGED <<host, loading, text, found, file, keychain, keyQ, secure, ghost>>

TokenTyped(a, t) ==
  /\ Event /\ a \in AllMachines
  /\ SetMachines(Upsert(list, a, t))
  /\ Paired(welcomed \ (IdsOf(At(list, a)) \ Held(list')))  \* replaced by the user
  /\ UNCHANGED <<host, loading, text, found, file, keychain, keyQ, secure>>

(* onWelcome: saveToken(machineId, token); then the identity is learned    *)
(* and the list saved.  applyIdentity keeps the record it has of the       *)
(* machine: without a Keychain a token typed at another address goes.      *)
Welcome(m) ==
  LET i == host[m.address] IN
  /\ Event
  /\ m \in list /\ i # None /\ m.token = TokenOf[i]
  /\ SetMachines(ApplyIdentity(list, m.address, i))
  /\ keyQ' = IF secure THEN Append(keyQ, i) ELSE keyQ
  /\ LET now == {j \in {i} : secure \/ j \in Held(list')}
     IN /\ welcomed' = (welcomed \ (IdsOf(list) \ IdsOf(list'))) \cup now
        /\ moved' = (moved \cap welcomed') \ now
  /\ found' = {}   \* discovery stops while the App is connected
  /\ UNCHANGED <<host, loading, text, file, keychain, secure>>
-----------------------------------------------------------------------------
(* The phone and the network.                                              *)
FileWritten ==
  /\ fileQ # <<>>
  /\ file' = Head(fileQ) /\ fileQ' = Tail(fileQ)
  /\ UNCHANGED <<host, list, loading, text, found, keychain, keyQ, secure, ghost, events>>

KeyWritten ==
  /\ keyQ # <<>>
  /\ keychain' = [keychain EXCEPT ![Head(keyQ)] = TokenOf[Head(keyQ)]]
  /\ keyQ' = Tail(keyQ)
  /\ UNCHANGED <<host, list, loading, text, found, file, fileQ, secure, ghost, events>>

KeyFails ==  \* setItemAsync rejects: _secure = false, from now on
  /\ Event /\ keyQ # <<>>
  /\ keyQ' = Tail(keyQ)
  /\ secure' = FALSE
  /\ Paired({i \in welcomed : i = Head(keyQ) => keychain[i] # None})
  /\ UNCHANGED <<host, list, loading, text, found, file, fileQ, keychain>>

(* The system ends the App, and it is started, perhaps as a new build.     *)
(* What was being written may be lost.  A pairing stays confirmed, also    *)
(* where the new build's Keychain does not have its token.                 *)
Restart ==
  /\ Event
  /\ secure' \in BOOLEAN
  /\ keychain' = keychain /\ file' = file
  /\ list' = {} /\ loading' = "reading" /\ text' = {} /\ found' = {}
  /\ fileQ' = <<>> /\ keyQ' = <<>>
  /\ welcomed' = {i \in welcomed : fileQ # <<>> \/ keyQ # <<>> \/ Early => Known(i)}
  /\ moved' = welcomed' \cap (moved \cup {i \in Id : secure' /\ keychain[i] = None})
  /\ UNCHANGED host

Move(i, a) ==  \* a machine gets another address, or leaves the network
  /\ Event
  /\ IF a = None THEN TRUE ELSE host[a] = None
  /\ host' = [b \in Address |-> IF b = a THEN i ELSE IF host[b] = i THEN None ELSE host[b]]
  /\ host' # host
  /\ UNCHANGED <<list, loading, text, found, store, secure, ghost>>

MachinesNext ==
  \/ LoadRead \/ LoadDone \/ FileWritten \/ KeyWritten \/ KeyFails \/ Restart
  \/ \E a \in Address : Discover(a) \/ LearnInfo(a) \/ AddToList(a)
  \/ \E a \in Address, t \in PairingToken : TokenTyped(a, t)
  \/ \E m \in list : Welcome(m)
  \/ \E i \in Id, a \in Address \cup {None} : Move(i, a)

MachinesSpec == MachinesInit /\ [][MachinesNext]_machinesVars
-----------------------------------------------------------------------------
(* Every variable has its type.                                            *)
MachinesTypeOK ==
  /\ host \in [Address -> Id \cup {None}]
  /\ list \in Lists /\ text \in Lists /\ file \in Lists /\ fileQ \in Seq(Lists)
  /\ loading \in {"no", "reading", "read"} /\ found \subseteq Address
  /\ keychain \in [Id -> PairingToken \cup {None}] /\ keyQ \in Seq(Id)
  /\ secure \in BOOLEAN /\ welcomed \subseteq Id /\ moved \subseteq welcomed
  /\ events \in 0..MaxEvents

(* No machine is listed twice, by address or by id, in memory, in the file *)
(* or in a write on its way: however addresses move and reads, writes and  *)
(* answers interleave (machines.ts:11 "dedupe key").                       *)
UniqueIn(l) == \A m, n \in l : m.address = n.address \/ (m.id = n.id /\ m.id # None) => m = n
Unique ==
  /\ UniqueIn(list) /\ UniqueIn(text) /\ UniqueIn(file)
  /\ \A k \in DOMAIN fileQ : UniqueIn(fileQ[k])

Settled == fileQ = <<>> /\ keyQ = <<>> /\ loading = "no"

(* Once its writes are done, the App can be ended at any time, and started *)
(* as often as one likes, without losing a pairing that its machine        *)
(* confirmed: unless the Keychain refused the token, the App was ended     *)
(* before the token was written, a list was saved before the file's was    *)
(* loaded, the user replaced the token, or a build brought a Keychain that *)
(* does not have it (machines.ts:102-115).                                 *)
ConfirmedPairingsAreKept == Settled => \A i \in welcomed \ moved : Known(i)

(* The same of the tokens that were in the file when a build brought the   *)
(* Keychain: machines.ts:61-62 "pairing still persists across restarts --  *)
(* and migrate to the Keychain once available".                            *)
TokensMigrate == Settled => \A i \in welcomed : Known(i)

(* The token of an identified machine is kept somewhere: machines.ts:108   *)
(* "Strip tokens from the file ONLY when the Keychain is holding them".    *)
TokensAreKept ==
  Settled => \A m \in list : m.id # None /\ m.token # None =>
               \E n \in WithTokens(file) : n.id = m.id /\ n.token = m.token
=============================================================================
