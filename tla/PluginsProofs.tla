--------------------------- MODULE PluginsProofs ---------------------------
(***************************************************************************)
(* Proofs about module Plugins, for any finite set of modems, any number   *)
(* of plug-ins and of references that the program holds itself.            *)
(***************************************************************************)
EXTENDS Plugins, FiniteSetTheorems, TLAPS

(***************************************************************************)
(* The inductive invariant. That a bank's plug-ins stay loaded rests on    *)
(* the count of references, since only the last one that is given back     *)
(* frees the list, and the bank's own is not back before its table is.     *)
(***************************************************************************)
\* A bank has plug-ins from their instantiation on until they are unregistered, as many
\* as there are in the list.
TableInv ==
  \A m \in Modems :
    table[m] > 0 => pc[m] \in {"live", "clac", "walk", "deinit"} /\ count = table[m]

\* A list that is in use is loaded, unless it has nothing in it.
ListInv == refs > 0 /\ count > 0 => modules = "live"

IInv == TypeOK /\ ReferencesCounted /\ TableInv /\ ListInv /\ OneWalk

-----------------------------------------------------------------------------
(***************************************************************************)
(* The users of the list.                                                  *)
(***************************************************************************)
\* There are finitely many users, and so their number is a number.
LEMMA UsersCount == IsFiniteSet(Users) /\ Cardinality(Users) \in Nat
  <1>1. Users \subseteq Modems
    BY DEF Users
  <1>2. IsFiniteSet(Users)
    BY <1>1, FS_Subset, ModemsAssumption
  <1> QED
    BY <1>2, FS_CardinalityType

\* When no reference is left, nobody uses the list and no bank has plug-ins.
LEMMA NoReference ==
  ASSUME IInv, refs = 0
  PROVE  Users = {} /\ \A m \in Modems : table[m] = 0
  <1>1. kept \in Nat
    BY DEF IInv, TypeOK
  <1>2. Cardinality(Users) = 0
    BY <1>1, UsersCount DEF IInv, ReferencesCounted
  <1>3. Users = {}
    BY <1>2, UsersCount, FS_EmptySet
  <1>4. \A m \in Modems : pc[m] \in {"off", "load"}
    BY <1>3 DEF Users
  <1>5. \A m \in Modems : table[m] \in Nat /\ ~(table[m] > 0)
    BY <1>4 DEF IInv, TypeOK, TableInv
  <1> QED
    BY <1>3, <1>5

\* The last reference, when the program holds none, is that of the only user.
LEMMA LastUser ==
  ASSUME IInv, refs = 1, NEW m \in Users
  PROVE  kept = 0 /\ Users = {m}
  <1>1. kept \in Nat
    BY DEF IInv, TypeOK
  <1>2. Cardinality(Users) # 0
    BY UsersCount, FS_EmptySet
  <1>3. Cardinality(Users) = 1 /\ kept = 0
    BY <1>1, <1>2, UsersCount DEF IInv, ReferencesCounted
  <1> QED
    BY <1>3, UsersCount, FS_Singleton

\* A user has a reference.
LEMMA UserHasReference ==
  ASSUME IInv, NEW m \in Users
  PROVE  refs > 0
  <1>1. kept \in Nat
    BY DEF IInv, TypeOK
  <1>2. Cardinality(Users) # 0
    BY UsersCount, FS_EmptySet
  <1> QED
    BY <1>1, <1>2, UsersCount DEF IInv, ReferencesCounted

-----------------------------------------------------------------------------
(***************************************************************************)
(* Initially, and in every step.                                           *)
(***************************************************************************)
\* A process in which nothing has been loaded satisfies the invariant.
LEMMA InitInv == Init => IInv
  <1> SUFFICES ASSUME Init PROVE IInv
    OBVIOUS
  <1>1. TypeOK
    BY DEF Init, TypeOK
  <1>2. Users = {}
    BY DEF Init, Users
  <1>3. ReferencesCounted
    BY <1>2, FS_EmptySet DEF Init, ReferencesCounted
  <1>4. TableInv /\ ListInv /\ OneWalk
    BY DEF Init, TableInv, ListInv, OneWalk
  <1> QED
    BY <1>1, <1>3, <1>4 DEF IInv

\* Steps that leave the list, the banks and the references alone.
Aside(m) ==
  \/ Start(m) \/ Clac(m) \/ ClacLock(m) \/ ClacUnlock(m)
  \/ Drop(m) \/ Cancelled(m) \/ Stop(m) \/ Stopped(m)

\* AT+CLAC, cancellation and at_modem_stop() keep the invariant.
LEMMA AsideInv == IInv /\ (\E m \in Modems : Aside(m)) => IInv'
  <1> SUFFICES ASSUME IInv, NEW m \in Modems, Aside(m) PROVE IInv'
    OBVIOUS
  <1>1. TypeOK'
    BY DEF IInv, TypeOK, Aside, Start, Clac, ClacLock, ClacUnlock, Drop, Cancelled, Stop, Stopped,
           Go, list, clac
  <1>2. UNCHANGED <<table, refs, count, modules, kept>>
    BY DEF Aside, Start, Clac, ClacLock, ClacUnlock, Drop, Cancelled, Stop, Stopped, list
  <1>3. Users' = Users
    BY DEF IInv, TypeOK, Users, Aside, Start, Clac, ClacLock, ClacUnlock, Drop, Cancelled, Stop,
           Stopped, Go
  <1>4. ReferencesCounted'
    BY <1>2, <1>3 DEF IInv, ReferencesCounted
  <1>5. TableInv'
    BY <1>2 DEF IInv, TypeOK, TableInv, Aside, Start, Clac, ClacLock, ClacUnlock, Drop, Cancelled,
                Stop, Stopped, Go
  <1>6. ListInv'
    BY <1>2 DEF IInv, ListInv
  <1>7. OneWalk'
    BY ModemsAssumption DEF IInv, TypeOK, OneWalk, Aside, Start, Clac, ClacLock, ClacUnlock, Drop,
                            Cancelled, Stop, Stopped, Go, clac
  <1> QED
    BY <1>1, <1>4, <1>5, <1>6, <1>7 DEF IInv

\* A modem takes its reference: the list is loaded if nobody had one, and then no bank
\* minds how long it is.
LEMMA LoadInv == IInv /\ (\E m \in Modems : Load(m)) => IInv'
  <1> SUFFICES ASSUME IInv, NEW m \in Modems, Load(m) PROVE IInv'
    OBVIOUS
  <1> USE ModemsAssumption
  <1>t. /\ refs \in Nat /\ kept \in Nat /\ count \in Nat /\ table \in [Modems -> Nat]
        /\ pc \in [Modems -> {"off", "load", "register", "live", "clac", "walk", "deinit", "unload"}]
        /\ modules \in {"null", "live", "freed"}
    BY DEF IInv, TypeOK
  <1>1. TypeOK'
    BY <1>t DEF IInv, TypeOK, Load, Go, at_load_plugins, load_plugins, clac
  <1>2. Users' = Users \cup {m} /\ m \notin Users
    BY DEF IInv, TypeOK, Load, Go, Users
  <1>3. Cardinality(Users') = Cardinality(Users) + 1
    BY <1>2, UsersCount, FS_AddElement
  <1>4. ReferencesCounted'
    BY <1>t, <1>3, UsersCount DEF IInv, ReferencesCounted, Load, at_load_plugins
  <1>5. TableInv'
    <2>1. CASE refs = 0
      BY <2>1, NoReference DEF TableInv, Load
    <2>2. CASE refs # 0
      BY <2>2 DEF IInv, TypeOK, TableInv, Load, Go, at_load_plugins
    <2> QED
      BY <2>1, <2>2
  <1>6. ListInv'
    BY <1>t DEF IInv, ListInv, Load, at_load_plugins, load_plugins
  <1>7. OneWalk'
    BY DEF IInv, TypeOK, OneWalk, Load, Go, clac
  <1> QED
    BY <1>1, <1>4, <1>5, <1>6, <1>7 DEF IInv

\* The program takes a reference.
LEMMA PreloadInv == IInv /\ Preload => IInv'
  <1> SUFFICES ASSUME IInv, Preload PROVE IInv'
    OBVIOUS
  <1> USE ModemsAssumption
  <1>t. /\ refs \in Nat /\ kept \in Nat /\ count \in Nat /\ table \in [Modems -> Nat]
        /\ pc \in [Modems -> {"off", "load", "register", "live", "clac", "walk", "deinit", "unload"}]
        /\ modules \in {"null", "live", "freed"}
    BY DEF IInv, TypeOK
  <1>1. TypeOK'
    BY <1>t DEF IInv, TypeOK, Preload, at_load_plugins, load_plugins, clac
  <1>2. Users' = Users
    BY DEF Preload, Users
  <1>3. ReferencesCounted'
    BY <1>t, <1>2, UsersCount DEF IInv, ReferencesCounted, Preload, at_load_plugins
  <1>4. TableInv'
    <2>1. CASE refs = 0
      BY <2>1, NoReference DEF TableInv, Preload
    <2>2. CASE refs # 0
      BY <2>2 DEF IInv, TypeOK, TableInv, Preload, at_load_plugins
    <2> QED
      BY <2>1, <2>2
  <1>5. ListInv'
    BY <1>t DEF IInv, ListInv, Preload, at_load_plugins, load_plugins
  <1>6. OneWalk'
    BY DEF IInv, OneWalk, Preload, clac
  <1> QED
    BY <1>1, <1>3, <1>4, <1>5, <1>6 DEF IInv

\* Plug-ins are registered in a bank: it has a reference, so the list is loaded if there
\* is anything in it.
LEMMA BankInv == IInv /\ (\E m \in Modems : Instantiate(m) \/ Deinstantiate(m)) => IInv'
  <1> SUFFICES ASSUME IInv, NEW m \in Modems, Instantiate(m) \/ Deinstantiate(m) PROVE IInv'
    OBVIOUS
  <1> USE ModemsAssumption
  <1>t. /\ refs \in Nat /\ kept \in Nat /\ count \in Nat /\ table \in [Modems -> Nat]
        /\ pc \in [Modems -> {"off", "load", "register", "live", "clac", "walk", "deinit", "unload"}]
        /\ modules \in {"null", "live", "freed"}
    BY DEF IInv, TypeOK
  <1>1. TypeOK'
    BY <1>t DEF IInv, TypeOK, Instantiate, Deinstantiate, Go, list, clac
  <1>2. UNCHANGED <<refs, count, modules, kept>>
    BY DEF Instantiate, Deinstantiate, list
  <1>3. Users' = Users
    BY DEF IInv, TypeOK, Users, Instantiate, Deinstantiate, Go
  <1>4. ReferencesCounted'
    BY <1>t, <1>2, <1>3 DEF IInv, ReferencesCounted
  <1>5. TableInv'
    BY <1>t, <1>2 DEF IInv, TableInv, Instantiate, Deinstantiate, Go
  <1>6. ListInv'
    BY <1>t, <1>2 DEF IInv, ListInv
  <1>7. OneWalk'
    BY DEF IInv, TypeOK, OneWalk, Instantiate, Deinstantiate, Go, clac
  <1> QED
    BY <1>1, <1>4, <1>5, <1>6, <1>7 DEF IInv

\* A modem gives its reference back. If it is the last, no bank has plug-ins any more.
LEMMA UnloadInv == IInv /\ (\E m \in Modems : Unload(m)) => IInv'
  <1> SUFFICES ASSUME IInv, NEW m \in Modems, Unload(m) PROVE IInv'
    OBVIOUS
  <1> USE ModemsAssumption
  <1>t. /\ refs \in Nat /\ kept \in Nat /\ count \in Nat /\ table \in [Modems -> Nat]
        /\ pc \in [Modems -> {"off", "load", "register", "live", "clac", "walk", "deinit", "unload"}]
        /\ modules \in {"null", "live", "freed"}
    BY DEF IInv, TypeOK
  <1>1. m \in Users
    BY DEF Unload, Users
  <1>2. refs > 0 /\ refs \in Nat /\ refs' = refs - 1
    BY <1>t, <1>1, UserHasReference DEF Unload, at_unload_plugins
  <1>3. TypeOK'
    BY <1>t, <1>2 DEF IInv, TypeOK, Unload, at_unload_plugins, clac
  <1>4. Users' = Users \ {m}
    BY DEF IInv, TypeOK, Unload, Users
  <1>5. Cardinality(Users') = Cardinality(Users) - 1
    BY <1>1, <1>4, UsersCount, FS_RemoveElement
  <1>6. ReferencesCounted'
    BY <1>t, <1>2, <1>5, UsersCount DEF IInv, ReferencesCounted, Unload
  <1>7. TableInv'
    BY DEF IInv, TypeOK, TableInv, Unload, at_unload_plugins
  <1>8. ListInv'
    BY <1>t, <1>2 DEF IInv, ListInv, Unload, at_unload_plugins
  <1>9. OneWalk'
    BY DEF IInv, TypeOK, OneWalk, Unload, clac
  <1> QED
    BY <1>3, <1>6, <1>7, <1>8, <1>9 DEF IInv

\* The program gives a reference back, one of those it has.
LEMMA ReleaseInv == IInv /\ Release => IInv'
  <1> SUFFICES ASSUME IInv, Release PROVE IInv'
    OBVIOUS
  <1> USE ModemsAssumption
  <1>t. /\ refs \in Nat /\ kept \in Nat /\ count \in Nat /\ table \in [Modems -> Nat]
        /\ pc \in [Modems -> {"off", "load", "register", "live", "clac", "walk", "deinit", "unload"}]
        /\ modules \in {"null", "live", "freed"}
    BY DEF IInv, TypeOK
  <1>1. Users' = Users
    BY DEF Release, Users
  <1>2. refs > 0 /\ refs \in Nat /\ refs' = refs - 1
    <2>1. Cardinality(Users) \in Nat /\ refs = Cardinality(Users) + kept
      BY UsersCount DEF IInv, ReferencesCounted
    <2>2. kept > 0 /\ refs' = refs - 1
      BY DEF Release, at_unload_plugins
    <2> QED
      BY <1>t, <2>1, <2>2
  <1>3. TypeOK'
    BY <1>t, <1>2 DEF IInv, TypeOK, Release, at_unload_plugins, clac
  <1>4. ReferencesCounted'
    BY <1>t, <1>1, <1>2, UsersCount DEF IInv, ReferencesCounted, Release
  <1>5. TableInv'
    BY DEF IInv, TableInv, Release, at_unload_plugins
  <1>6. ListInv'
    BY <1>t, <1>2 DEF IInv, ListInv, Release, at_unload_plugins
  <1>7. OneWalk'
    BY DEF IInv, OneWalk, Release, clac
  <1> QED
    BY <1>3, <1>4, <1>5, <1>6, <1>7 DEF IInv

\* Nothing changes, nothing is lost.
LEMMA StutterInv == IInv /\ UNCHANGED vars => IInv'
  BY DEF IInv, TypeOK, ReferencesCounted, Users, TableInv, ListInv, OneWalk, vars, list, clac

-----------------------------------------------------------------------------
\* The invariant holds in every state that the program reaches.
THEOREM Invariance == Safety => []IInv
  <1>1. Init => IInv
    BY InitInv
  <1>2. IInv /\ [Next]_vars => IInv'
    <2> SUFFICES ASSUME IInv, [Next]_vars PROVE IInv'
      OBVIOUS
    <2>1. CASE \E m \in Modems : Aside(m)
      BY <2>1, AsideInv
    <2>2. CASE \E m \in Modems : Load(m)
      BY <2>2, LoadInv
    <2>3. CASE \E m \in Modems : Instantiate(m) \/ Deinstantiate(m)
      BY <2>3, BankInv
    <2>4. CASE \E m \in Modems : Unload(m)
      BY <2>4, UnloadInv
    <2>5. CASE Preload
      BY <2>5, PreloadInv
    <2>6. CASE Release
      BY <2>6, ReleaseInv
    <2>7. CASE UNCHANGED vars
      BY <2>7, StutterInv
    <2> QED
      BY <2>1, <2>2, <2>3, <2>4, <2>5, <2>6, <2>7, Zenon DEF Next, Runs, Aside
  <1> QED
    BY <1>1, <1>2, PTL DEF Safety

\* The variables keep their types; refs is not decremented below zero (plugins.c:178).
THEOREM TypeCorrect == Safety => []TypeOK
  BY Invariance, PTL DEF IInv

\* Every reference to the list is somebody's, so that the plug-ins are unloaded when the
\* last one that uses them lets go (at_load_plugins(), at_unload_plugins()).
THEOREM ReferencesAreCounted == Safety => []ReferencesCounted
  BY Invariance, PTL DEF IInv

\* While a bank has plug-ins in it their code is loaded, and the list has the length that
\* it had when they were instantiated (at_instantiate_plugins(), at_deinstantiate_plugins()).
THEOREM BanksKeepTheirPlugins == Safety => []BanksKeepPlugins
  <1>1. IInv => BanksKeepPlugins
    <2> SUFFICES ASSUME IInv, NEW m \in Modems, table[m] > 0
                 PROVE  modules = "live" /\ count = table[m]
      BY DEF BanksKeepPlugins
    <2>1. m \in Users /\ count = table[m] /\ count > 0
      BY DEF IInv, TableInv, Users
    <2>2. refs > 0
      BY <2>1, UserHasReference
    <2> QED
      BY <2>1, <2>2 DEF IInv, ListInv
  <1> QED
    BY <1>1, Invariance, PTL

\* One AT+CLAC at a time, whoever is cancelled (handle_clac()).
THEOREM OneWalkAtATime == Safety => []OneWalk
  BY Invariance, PTL DEF IInv

\* A list that was loaded is freed once: what is freed twice had nothing in it
\* (at_unload_plugins()).
THEOREM ListIsFreedOnce == Safety => LoadedListFreedOnce
  <1>1. IInv /\ [Next]_vars => [broken' = "double_free" /\ broken # "double_free" => count = 0]_vars
    <2> SUFFICES ASSUME IInv, Next, broken' = "double_free", broken # "double_free"
                 PROVE  count = 0
      OBVIOUS
    <2>1. refs = 1 /\ modules = "freed"
      BY DEF Next, Runs, Start, Load, Instantiate, Clac, ClacLock, ClacUnlock, Drop, Cancelled,
             Deinstantiate, Unload, Stop, Stopped, Preload, Release, at_unload_plugins
    <2> QED
      BY <2>1 DEF IInv, TypeOK, ListInv
  <1> QED
    BY <1>1, Invariance, PTL DEF Safety, LoadedListFreedOnce
=============================================================================
