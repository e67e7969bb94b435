------------------------- MODULE SequenceTokensProofs -------------------------
(***************************************************************************)
(* For any set of threads and of names: ids are never handed out for two     *)
(* purposes, and a name keeps its id.                                        *)
(***************************************************************************)
EXTENDS SequenceTokens, TLAPS

(* Every id in use is one the counter has passed; the id a thread inside     *)
(* Named has taken is its own, and only the owner of the mutex has one; what *)
(* a name was ever answered is what the map holds for it.                    *)
IdsAccounted ==
  /\ \A i \in 0..MaxId : created[i] \in 0..1 /\ (created[i] = 1 => i # NoId /\ i < nextId)
  /\ \A n \in Names :
       /\ named[n] < nextId
       /\ named[n] # NoId => created[named[n]] = 0
       /\ \A m \in Names \ {n} : named[n] = named[m] => named[n] = NoId
       /\ answers[n] \subseteq {named[n]} /\ NoId \notin answers[n]
  /\ \A p \in Threads :
       /\ fresh[p] < nextId
       /\ fresh[p] # NoId =>
            /\ owner = p /\ created[fresh[p]] = 0
            /\ named[asked[p]] = NoId
            /\ \A n \in Names : named[n] # fresh[p]
       /\ owner = p => named[asked[p]] = NoId

IInv == TypeOK /\ IdsAccounted

(* At first no id has been given.                                            *)
LEMMA Start == Init => IInv
BY TokenAssumption DEF Init, IInv, TypeOK, IdsAccounted, NoId

(* Each call gives a new id or one that was given for the same name.         *)
LEMMA Step == IInv /\ [Next]_vars => IInv'
<1> SUFFICES ASSUME IInv, [Next]_vars PROVE IInv'
  OBVIOUS
<1> USE TokenAssumption DEF IInv, TypeOK, IdsAccounted, NoId
<1>1. ASSUME NEW p \in Threads, Create(p) PROVE IInv'
  BY <1>1 DEF Create, FetchAdd
<1>2. ASSUME NEW p \in Threads, NEW n \in Names, NamedFound(p, n) PROVE IInv'
  BY <1>2 DEF NamedFound, Answer
<1>3. ASSUME NEW p \in Threads, NEW n \in Names, NamedAbsent(p, n) PROVE IInv'
  BY <1>3 DEF NamedAbsent
<1>4. ASSUME NEW p \in Threads, NamedTake(p) PROVE IInv'
  BY <1>4 DEF NamedTake, FetchAdd
<1>5. ASSUME NEW p \in Threads, NamedStore(p) PROVE IInv'
  BY <1>5 DEF NamedStore, Answer
<1>6. ASSUME NEW p \in Threads, NamedThrows(p) PROVE IInv'
  BY <1>6 DEF NamedThrows
<1>7. CASE UNCHANGED vars
  BY <1>7 DEF vars
<1>8. QED
  BY <1>1, <1>2, <1>3, <1>4, <1>5, <1>6, <1>7 DEF Next

(* The inductive invariant holds: every id given is below the counter, once. *)
THEOREM Invariance == Spec => []IInv
BY Start, Step, PTL DEF Spec

(* Ids stay within what the counter has handed out, for any number of        *)
(* threads and names.                                                        *)
THEOREM TokenTypeCorrect == Spec => []TypeOK
BY Invariance, PTL DEF IInv

(* SequenceToken::Create and Named never hand one id out for two purposes.   *)
THEOREM IdsUnique == Spec => []UniqueIds
<1>1. IInv => UniqueIds
  BY TokenAssumption DEF IInv, TypeOK, IdsAccounted, UniqueIds, IsValid, NoId
<1>2. QED
  BY <1>1, Invariance, PTL

(* SequenceToken::Named gives a name the same id for ever.                   *)
THEOREM NamesKeepTheirIds == Spec => []NamesStable
<1>1. IInv => NamesStable
  BY DEF IInv, IdsAccounted, NamesStable
<1>2. QED
  BY <1>1, Invariance, PTL

=============================================================================
