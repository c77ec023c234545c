--------------------------------- MODULE Crdt ---------------------------------
(***************************************************************************)
(* The replicated value of a store that is Syncing, and how the operations *)
(* of every header the graph accepts are applied to it: apply_operations   *)
(* of store/mod.rs, the operation times of store/ecg/v0.rs, and ossa-crdt. *)
(*                                                                         *)
(* The value is a TwoPMap of LWW registers.  Keys and the times of writes  *)
(* are operation ids.  A register is given by the time of the write it     *)
(* shows.                                                                  *)
(*                                                                         *)
(* A header carries several operations.  The store applies them one after  *)
(* the other, before it does anything else: `applying` is what is left.    *)
(***************************************************************************)
EXTENDS Ecg

CONSTANTS
  Operations,    \* Operations[h]: the operations header h carries
  InitialKey     \* keys of the initial state

NoHeader == -1   \* the header of ids of the initial state (None)

(***************************************************************************)
(* OperationId: the header and the position of the operation in it.        *)
(***************************************************************************)
OperationId == (HeaderId \cup {NoHeader}) \X Nat

Carried == UNION {{h} \X (0..(Len(Operations[h]) - 1)) : h \in HeaderId}
OperationOf(t) == Operations[t[1]][t[2] + 1]
KeyOf(t) == OperationOf(t).key

IsInsert(t) == OperationOf(t).type = "Insert"
IsApply(t) == OperationOf(t).type = "Apply"
IsDelete(t) == OperationOf(t).type = "Delete"

\* OperationId::happens_before.  The ancestor relation is what IsAncestorOf
\* finds in the graph (SearchFindsAncestors).
HappensBefore(t1, t2) ==
  IF t1[1] = t2[1] THEN t1[2] < t2[2]
  ELSE \/ t1[1] = NoHeader
       \/ t2[1] # NoHeader /\ t1[1] \in Ancestors[t2[1]]

\* The derived order of ids; None comes before every header.
IdLess(t1, t2) == t1[1] < t2[1] \/ (t1[1] = t2[1] /\ t1[2] < t2[2])

\* Mistaken orders: ids only, and ties are not broken.
PrecedesById(t1, t2) == IdLess(t1, t2)
PrecedesCausally(t1, t2) == HappensBefore(t1, t2)

\* compare_with_tiebreak(t1, t2) is Less.
Precedes(t1, t2) ==
  \/ HappensBefore(t1, t2)
  \/ ~HappensBefore(t2, t1) /\ IdLess(t1, t2)

(***************************************************************************)
(* Applications take the keys they use from the value their graph gives:   *)
(* a new key is the id of the operation that inserts it (CausalTime's      *)
(* Current), any other was inserted before.                                *)
(***************************************************************************)
ASSUME OperationsAssumption ==
  /\ Operations \in [HeaderId -> Seq([type : {"Insert", "Apply", "Delete"}, key : OperationId])]
  /\ InitialKey \subseteq {NoHeader} \X Nat
  /\ \A t \in Carried :
       IF IsInsert(t) THEN KeyOf(t) = t
       ELSE /\ KeyOf(t) \in InitialKey \cup Carried
            /\ HappensBefore(KeyOf(t), t)
            /\ KeyOf(t) \in Carried => IsInsert(KeyOf(t))

VARIABLES
  map,          \* map[k]: the time of the write that the register at k shows
  tombstones,   \* keys deleted
  applying      \* ids of the operations accepted and not applied yet

valueVars == <<map, tombstones, applying>>
crdtVars == <<vars, valueVars>>

\* The initial state, decoded when the download ends.
InitialMap == [k \in InitialKey |-> k]

CrdtInit ==
  /\ Init
  /\ map = InitialMap
  /\ tombstones = {}
  /\ applying = <<>>

\* The ids of a header's operations, in order.
TimesOf(h) == [i \in 1..Len(Operations[h]) |-> <<h, i - 1>>]

(***************************************************************************)
(* Apply and ReceivedECGOperations: the operations of a header are applied *)
(* if the graph accepts it.                                                *)
(***************************************************************************)
AddHeader(h) ==
  /\ applying = <<>>
  /\ InsertHeader(h)
  /\ applying' = IF accepted' THEN TimesOf(h) ELSE <<>>
  /\ UNCHANGED <<map, tombstones>>

(***************************************************************************)
(* TwoPMap::apply and LWW::apply of the operation with id t.  A key to     *)
(* insert that exists, and a key to update that does not, are unreachable  *)
(* in the code: there is no step then (see FindsItsKey).                   *)
(***************************************************************************)
\* An operation on a deleted key does nothing.
IgnoreDeleted(t) ==
  /\ KeyOf(t) \in tombstones
  /\ UNCHANGED <<map, tombstones>>

InsertKey(t) ==
  /\ IsInsert(t)
  /\ KeyOf(t) \notin tombstones \cup DOMAIN map
  /\ map' = [k \in DOMAIN map \cup {KeyOf(t)} |-> IF k = KeyOf(t) THEN t ELSE map[k]]
  /\ UNCHANGED tombstones

\* LWW::apply: the later of the two writes is shown.
ApplyToKey(t) ==
  /\ IsApply(t)
  /\ KeyOf(t) \in DOMAIN map \ tombstones
  /\ map' = [map EXCEPT ![KeyOf(t)] = IF Precedes(@, t) THEN t ELSE @]
  /\ UNCHANGED tombstones

\* Mistaken step: a key deleted is only taken out.
DeleteKeyOnly(t) ==
  /\ IsDelete(t)
  /\ KeyOf(t) \notin tombstones
  /\ map' = [k \in DOMAIN map \ {KeyOf(t)} |-> map[k]]
  /\ UNCHANGED tombstones

DeleteKey(t) ==
  /\ IsDelete(t)
  /\ KeyOf(t) \notin tombstones
  /\ map' = [k \in DOMAIN map \ {KeyOf(t)} |-> map[k]]
  /\ tombstones' = tombstones \cup {KeyOf(t)}

ApplyOperation ==
  /\ applying # <<>>
  /\ LET t == Head(applying)
     IN  IgnoreDeleted(t) \/ InsertKey(t) \/ ApplyToKey(t) \/ DeleteKey(t)
  /\ applying' = Tail(applying)
  /\ UNCHANGED vars

CrdtNext == ApplyOperation \/ \E h \in HeaderId : AddHeader(h)

CrdtSpec == CrdtInit /\ [][CrdtNext]_crdtVars
-----------------------------------------------------------------------------
(***************************************************************************)
(* Correctness.                                                            *)
(***************************************************************************)

\* Operations applied so far.
Applied == {t \in Carried : t[1] \in Nodes /\ \A i \in DOMAIN applying : t # applying[i]}

Deleted == {KeyOf(t) : t \in {u \in Applied : IsDelete(u)}}
Inserted == InitialKey \cup {t \in Applied : IsInsert(t)}

\* What TwoPMap::apply takes for granted of an operation.
FindsItsKey(t) ==
  KeyOf(t) \in tombstones \/ (IsInsert(t) <=> KeyOf(t) \notin DOMAIN map)

(***************************************************************************)
(* The keys are what the set of operations says, whatever the order they   *)
(* came in: replicas with the same headers have the same keys, a key never *)
(* comes back, and no operation fails to find its key.                     *)
(***************************************************************************)
KeysAreDetermined ==
  /\ tombstones = Deleted
  /\ DOMAIN map = Inserted \ Deleted
  /\ applying # <<>> => FindsItsKey(Head(applying))

Writes(k) == {k} \cup {t \in Applied : IsApply(t) /\ KeyOf(t) = k}

(***************************************************************************)
(* A register never shows a write once another that was made knowing of it *)
(* has been applied, whatever the tie-breaks in between.                   *)
(***************************************************************************)
NothingOverwrittenIsShown ==
  \A k \in DOMAIN map :
    /\ map[k] \in Writes(k)
    /\ \A w \in Writes(k) : ~HappensBefore(map[k], w)

\* Causal order and the order of ids agree well enough on these writes.
IsTransitive(W) ==
  \A a, b, c \in W : Precedes(a, b) /\ Precedes(b, c) => Precedes(a, c)

(***************************************************************************)
(* A register shows the last of the writes applied, so it depends on the   *)
(* set of operations only (lawCommutativity), provided compare_with_       *)
(* tiebreak is an order on them.  It is not if a -> b causally, c is       *)
(* concurrent with both, and b < c < a by id: then a, b, c shows c, and    *)
(* a, c, b shows b.                                                        *)
(***************************************************************************)
RegistersConverge ==
  \A k \in DOMAIN map : IsTransitive(Writes(k)) =>
    \A w \in Writes(k) \ {map[k]} : Precedes(w, map[k])
=============================================================================
