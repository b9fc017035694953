----------------------------- MODULE DBPoolProofs -----------------------------
(***************************************************************************)
(* Proofs about DBPool for every set of clients, every supply of connections, *)
(* every limit on them and every number of calls.                            *)
(***************************************************************************)
EXTENDS DBPool, FiniteSetTheorems, SequenceTheorems, TLAPS

Entries == Conns \union {NULL}
Waiters == {c \in Clients : pc[c] \in {"wait", "waitFor"}}

-----------------------------------------------------------------------------
(* The inductive invariant                                                   *)

\* Until Init has succeeded the pool is empty and nobody uses it.
UnusedBeforeInit ==
  state \in {"new", "failed"} =>
    /\ m_free_list = <<>> /\ m_used_list = {} /\ m_cond_var = {}
    /\ m_db_cur_conn_cnt = MIN_DB_CONN_CNT
    /\ pc = [c \in Clients |-> "idle"]

\* The destructor wakes everybody, and nobody goes to sleep afterwards.
NobodySleepsAfterAbort == m_abort_request => m_cond_var = {}

\* Only a client whose call has returned has a connection.
WaitersHoldNothing == \A c \in Clients : pc[c] # "holding" => pConn[c] = NULL

\* The free list has no entry twice, NULL included.
NoDuplicates(list) == \A i, j \in DOMAIN list : list[i] = list[j] => i = j

\* ConnExclusive without counting.
OneHolder ==
  /\ \A c, d \in Clients : pConn[c] = pConn[d] /\ pConn[c] # NULL => c = d
  /\ \A c \in Clients : pConn[c] # NULL => pConn[c] \notin Elements(m_free_list)
  /\ \A c \in Clients : pConn[c] # NULL => pConn[c] \in m_used_list
  /\ \A conn \in m_used_list \ {NULL} : \E c \in Clients : pConn[c] = conn

IInv == /\ TypeOK
        /\ UnusedBeforeInit
        /\ NobodySleepsAfterAbort
        /\ WaitersHoldNothing
        /\ NoDuplicates(m_free_list)
        /\ OneHolder
        /\ ConnCountExact
        /\ EnoughWoken

-----------------------------------------------------------------------------
(* The free list as a set: what taking and putting back do to its entries.   *)

\* Taking the front of a list without duplicates removes that entry.
LEMMA TakeFrontFacts ==
  ASSUME NEW list \in Seq(Entries), list # <<>>, NoDuplicates(list)
  PROVE  /\ Head(list) \in Elements(list)
         /\ Head(list) \in Entries
         /\ Tail(list) \in Seq(Entries)
         /\ Len(Tail(list)) = Len(list) - 1
         /\ NoDuplicates(Tail(list))
         /\ Elements(Tail(list)) = Elements(list) \ {Head(list)}
<1>1. /\ Len(list) \in Nat /\ Len(list) >= 1
      /\ DOMAIN list = 1 .. Len(list)
      /\ Head(list) = list[1]
  BY LenProperties, EmptySeq
<1>2. /\ Head(list) \in Entries
      /\ Tail(list) \in Seq(Entries)
      /\ Len(Tail(list)) = Len(list) - 1
      /\ \A i \in 1 .. Len(list) - 1 : Tail(list)[i] = list[i + 1]
  BY HeadTailProperties
<1>3. DOMAIN Tail(list) = 1 .. Len(list) - 1
  BY <1>2, LenProperties
<1>4. Head(list) \in Elements(list)
  BY <1>1 DEF Elements
<1>5. NoDuplicates(Tail(list))
  BY <1>1, <1>2, <1>3 DEF NoDuplicates
<1>6. ASSUME NEW x \in Elements(Tail(list))
      PROVE  x \in Elements(list) \ {Head(list)}
  <2>1. PICK i \in 1 .. Len(list) - 1 : x = list[i + 1]
    BY <1>2, <1>3 DEF Elements
  <2> QED BY <2>1, <1>1 DEF Elements, NoDuplicates
<1>7. ASSUME NEW x \in Elements(list) \ {Head(list)}
      PROVE  x \in Elements(Tail(list))
  <2>1. PICK i \in 2 .. Len(list) : x = list[i]
    BY <1>1 DEF Elements
  <2>2. i - 1 \in 1 .. Len(list) - 1 /\ x = Tail(list)[i - 1]
    BY <2>1, <1>1, <1>2
  <2> QED BY <2>2, <1>3 DEF Elements
<1> QED BY <1>2, <1>4, <1>5, <1>6, <1>7

\* A new entry at the end.
LEMMA AppendFacts ==
  ASSUME NEW list \in Seq(Entries), NoDuplicates(list),
         NEW x \in Entries, x \notin Elements(list)
  PROVE  /\ Append(list, x) \in Seq(Entries)
         /\ Append(list, x) # <<>>
         /\ Len(Append(list, x)) = Len(list) + 1
         /\ NoDuplicates(Append(list, x))
         /\ Elements(Append(list, x)) = Elements(list) \union {x}
<1> DEFINE new == Append(list, x)
<1>1. /\ Len(list) \in Nat
      /\ DOMAIN list = 1 .. Len(list)
  BY LenProperties
<1>2. /\ new \in Seq(Entries)
      /\ new # <<>>
      /\ Len(new) = Len(list) + 1
      /\ \A i \in 1 .. Len(list) : new[i] = list[i]
      /\ new[Len(list) + 1] = x
  BY AppendProperties
<1>3. DOMAIN new = 1 .. Len(list) + 1
  BY <1>2, LenProperties
<1> HIDE DEF new
<1>4. \A i \in 1 .. Len(list) : list[i] # x
  BY <1>1 DEF Elements
<1>5. NoDuplicates(new)
  BY <1>1, <1>2, <1>3, <1>4 DEF NoDuplicates
<1>6. ASSUME NEW y \in Elements(new) PROVE y \in Elements(list) \union {x}
  <2>1. PICK i \in 1 .. Len(list) + 1 : y = new[i]
    BY <1>3 DEF Elements
  <2> QED BY <2>1, <1>1, <1>2 DEF Elements
<1>7. ASSUME NEW y \in Elements(list) \union {x} PROVE y \in Elements(new)
  <2>1. \A i \in 1 .. Len(list) + 1 : new[i] \in Elements(new)
    BY <1>3 DEF Elements
  <2>2. x \in Elements(new)
    BY <2>1, <1>1, <1>2
  <2>3. Elements(list) \subseteq Elements(new)
    BY <2>1, <1>1, <1>2 DEF Elements
  <2> QED BY <2>2, <2>3
<1>8. Elements(new) = Elements(list) \union {x}
  BY <1>6, <1>7
<1> QED BY <1>2, <1>5, <1>8 DEF new

\* The empty free list.
LEMMA EmptyFacts ==
  /\ <<>> \in Seq(Entries) /\ Len(<<>>) = 0
  /\ NoDuplicates(<<>>) /\ Elements(<<>>) = {}
<1>1. <<>> \in Seq(Entries) /\ Len(<<>>) = 0
  BY EmptySeq
<1>2. DOMAIN <<>> = {}
  BY <1>1, LenProperties
<1> QED BY <1>1, <1>2 DEF NoDuplicates, Elements

-----------------------------------------------------------------------------
(* One lemma per step of GetDBConn, RelDBConn and the destructor.             *)

\* What a call that takes a connection does, whatever list it takes it from.
LEMMA TakeFrontKeeps ==
  ASSUME TypeOK, WaitersHoldNothing, OneHolder,
         NEW c \in Clients, pc[c] # "holding",
         NEW list \in Seq(Entries), list # <<>>, NoDuplicates(list),
         \A d \in Clients : pConn[d] # NULL => pConn[d] \notin Elements(list),
         TakeFront(c, list)
  PROVE  /\ m_free_list' \in Seq(Entries) /\ NoDuplicates(m_free_list')
         /\ Len(m_free_list') = Len(list) - 1
         /\ m_used_list' \subseteq Entries
         /\ pc' \in [Clients -> {"idle", "wait", "waitFor", "holding"}]
         /\ pConn' \in [Clients -> Entries]
         /\ WaitersHoldNothing'
         /\ OneHolder'
         /\ Live' = (Elements(list) \union {pConn[d] : d \in Clients}) \ {NULL}
         /\ Waiters' = Waiters \ {c}
<1> USE DEF Entries
<1>1. /\ Head(list) \in Elements(list)
      /\ Head(list) \in Entries
      /\ m_free_list' \in Seq(Entries) /\ NoDuplicates(m_free_list')
      /\ Len(m_free_list') = Len(list) - 1
      /\ Elements(m_free_list') = Elements(list) \ {Head(list)}
  BY TakeFrontFacts DEF TakeFront
<1>2. /\ m_used_list' = m_used_list \union {Head(list)}
      /\ pc' = [pc EXCEPT ![c] = "holding"]
      /\ pConn' = [pConn EXCEPT ![c] = Head(list)]
  BY DEF TakeFront
<1>3. /\ m_used_list \subseteq Entries
      /\ pc \in [Clients -> {"idle", "wait", "waitFor", "holding"}]
      /\ pConn \in [Clients -> Entries]
  BY DEF TypeOK
<1>4. pConn[c] = NULL
  BY DEF WaitersHoldNothing
<1>5. \A d \in Clients : pConn'[d] = IF d = c THEN Head(list) ELSE pConn[d]
  BY <1>2, <1>3
<1>6. \A d \in Clients : pc'[d] = IF d = c THEN "holding" ELSE pc[d]
  BY <1>2, <1>3
<1>7. WaitersHoldNothing'
  BY <1>5, <1>6 DEF WaitersHoldNothing
<1>8. OneHolder'
  <2>1. \A d, e \in Clients : pConn'[d] = pConn'[e] /\ pConn'[d] # NULL => d = e
    BY <1>1, <1>5 DEF OneHolder
  <2>2. \A d \in Clients : pConn'[d] # NULL => pConn'[d] \notin Elements(m_free_list')
    BY <1>1, <1>5
  <2>3. \A d \in Clients : pConn'[d] # NULL => pConn'[d] \in m_used_list'
    BY <1>2, <1>5 DEF OneHolder
  <2>4. \A conn \in m_used_list' \ {NULL} : \E d \in Clients : pConn'[d] = conn
    <3>1. SUFFICES ASSUME NEW conn \in m_used_list' \ {NULL}
                   PROVE  \E d \in Clients : pConn'[d] = conn
      OBVIOUS
    <3>2. CASE conn = Head(list)
      BY <3>2, <1>5
    <3>3. CASE conn \in m_used_list
      <4>1. PICK d \in Clients : pConn[d] = conn
        BY <3>3, <3>1 DEF OneHolder
      <4>2. d # c
        BY <4>1, <3>1, <1>4
      <4> QED BY <4>1, <4>2, <1>5
    <3> QED BY <3>2, <3>3, <1>2
  <2> QED BY <2>1, <2>2, <2>3, <2>4 DEF OneHolder
<1>9. Live' = (Elements(list) \union {pConn[d] : d \in Clients}) \ {NULL}
  <2>1. {pConn'[d] : d \in Clients} \ {NULL}
          = ({pConn[d] : d \in Clients} \union {Head(list)}) \ {NULL}
    BY <1>4, <1>5
  <2>2. Live' = (Elements(m_free_list') \union {pConn'[d] : d \in Clients}) \ {NULL}
    BY DEF Live, Elements
  <2> QED BY <2>1, <2>2, <1>1
<1>10. Waiters' = Waiters \ {c}
  BY <1>6 DEF Waiters
<1> QED BY <1>1, <1>2, <1>3, <1>7, <1>8, <1>9, <1>10

\* An answer NULL changes nothing but the place where the client stands.
LEMMA ReturnNullKeeps ==
  ASSUME TypeOK, WaitersHoldNothing, OneHolder, NoDuplicates(m_free_list),
         NEW c \in Clients, pc[c] # "holding",
         ReturnNull(c)
  PROVE  /\ pc' \in [Clients -> {"idle", "wait", "waitFor", "holding"}]
         /\ UNCHANGED <<m_free_list, m_used_list, pConn>>
         /\ WaitersHoldNothing'
         /\ OneHolder'
         /\ NoDuplicates(m_free_list')
         /\ Live' = Live
         /\ Waiters' = Waiters \ {c}
<1>1. /\ pc \in [Clients -> {"idle", "wait", "waitFor", "holding"}]
      /\ pConn \in [Clients -> Entries]
  BY DEF TypeOK, Entries
<1>2. pConn' = pConn /\ m_free_list' = m_free_list /\ m_used_list' = m_used_list
  <2>1. pConn[c] = NULL
    BY DEF WaitersHoldNothing
  <2> QED BY <2>1, <1>1 DEF ReturnNull
<1>3. \A d \in Clients : pc'[d] = IF d = c THEN "holding" ELSE pc[d]
  BY <1>1 DEF ReturnNull
<1>4. WaitersHoldNothing'
  BY <1>2, <1>3 DEF WaitersHoldNothing
<1>5. OneHolder' /\ Live' = Live /\ NoDuplicates(m_free_list')
  BY <1>2 DEF OneHolder, Live, Elements, NoDuplicates
<1>6. Waiters' = Waiters \ {c}
  BY <1>3 DEF Waiters
<1> QED BY <1>1, <1>2, <1>4, <1>5, <1>6 DEF ReturnNull

\* The waiters that have been woken can be counted.
LEMMA WaitersFinite ==
  ASSUME NEW S
  PROVE  /\ IsFiniteSet(Waiters \ S)
         /\ Cardinality(Waiters \ S) \in Nat
<1>1. IsFiniteSet(Waiters \ S)
  BY FS_Subset, ClientsAssumption DEF Waiters
<1> QED BY <1>1, FS_CardinalityType

\* EnoughWoken in terms of the waiters, now and in the next state.
LEMMA EnoughWokenMeans ==
  /\ EnoughWoken <=>
       (m_cond_var # {} => Len(m_free_list) <= Cardinality(Waiters \ m_cond_var))
  /\ EnoughWoken' <=>
       (m_cond_var' # {} => Len(m_free_list') <= Cardinality(Waiters' \ m_cond_var'))
  BY DEF EnoughWoken, Waiters

\* The open connections can be counted.
LEMMA LiveFinite ==
  ASSUME TypeOK
  PROVE  IsFiniteSet(Live) /\ Cardinality(Live) \in Nat
<1>1. Live \subseteq Conns
  <2>1. Elements(m_free_list) \subseteq Conns \union {NULL}
    <3>1. m_free_list \in Seq(Entries)
      BY DEF TypeOK, Entries
    <3>2. \A i \in DOMAIN m_free_list : m_free_list[i] \in Entries
      BY <3>1, LenProperties, ElementOfSeq
    <3> QED BY <3>2 DEF Elements, Entries
  <2> QED BY <2>1 DEF Live, TypeOK
<1>2. IsFiniteSet(Live)
  BY <1>1, FS_Subset, ConnsAssumption
<1> QED BY <1>2, FS_CardinalityType

-----------------------------------------------------------------------------
(* Every step keeps the invariant                                            *)

\* The constructor of CDBPool establishes the invariant.
THEOREM InitHolds == Init => IInv
<1> SUFFICES ASSUME Init PROVE IInv
  OBVIOUS
<1> USE DEF Init, MIN_DB_CONN_CNT
<1>1. TypeOK
  <2>1. m_free_list \in Seq(Entries)
    BY EmptyFacts
  <2>2. pc \in [Clients -> {"idle", "wait", "waitFor", "holding"}]
    OBVIOUS
  <2>3. pConn \in [Clients -> Entries]
    BY DEF Entries
  <2>4. calls \in [Clients -> 0 .. MaxCalls]
    BY MaxAssumption
  <2> QED BY <2>1, <2>2, <2>3, <2>4 DEF TypeOK, Entries
<1>2. UnusedBeforeInit /\ NobodySleepsAfterAbort /\ WaitersHoldNothing
  BY DEF UnusedBeforeInit, NobodySleepsAfterAbort, WaitersHoldNothing
<1>3. NoDuplicates(m_free_list) /\ OneHolder
  BY EmptyFacts DEF OneHolder
<1>4. ConnCountExact /\ EnoughWoken
  BY DEF ConnCountExact, EnoughWoken
<1> QED BY <1>1, <1>2, <1>3, <1>4 DEF IInv

\* CDBPool::Init keeps it, whether its connection opens or not.
LEMMA InitPoolKeeps == IInv /\ InitPool => IInv'
<1> SUFFICES ASSUME IInv, InitPool PROVE IInv'
  OBVIOUS
<1>1. /\ state = "new" /\ m_free_list = <<>> /\ m_used_list = {} /\ m_cond_var = {}
      /\ m_db_cur_conn_cnt = 1
      /\ pc = [c \in Clients |-> "idle"]
      /\ UNCHANGED <<m_used_list, m_db_cur_conn_cnt, m_abort_request, m_cond_var, pc,
                     pConn, calls>>
  BY DEF InitPool, IInv, UnusedBeforeInit, MIN_DB_CONN_CNT
<1>2. \A c \in Clients : pConn[c] = NULL
  BY <1>1 DEF IInv, WaitersHoldNothing
<1>3. CASE state' = "failed" /\ UNCHANGED m_free_list
  BY <1>1, <1>3 DEF IInv, TypeOK, UnusedBeforeInit, NobodySleepsAfterAbort,
                    WaitersHoldNothing, NoDuplicates, OneHolder, Elements,
                    ConnCountExact, EnoughWoken, MIN_DB_CONN_CNT
<1>4. CASE /\ state' = "ready"
           /\ \E conn \in Conns : m_free_list' = Append(m_free_list, conn)
  <2>1. PICK conn \in Conns : m_free_list' = Append(<<>>, conn)
    BY <1>1, <1>4
  <2>2. /\ m_free_list' \in Seq(Entries)
        /\ NoDuplicates(m_free_list')
        /\ Elements(m_free_list') = {conn}
    BY <2>1, EmptyFacts, AppendFacts DEF Entries
  <2>3. TypeOK'
    BY <1>1, <1>4, <2>2 DEF IInv, TypeOK, Entries
  <2>4. UnusedBeforeInit' /\ NobodySleepsAfterAbort' /\ WaitersHoldNothing'
    BY <1>1, <1>4 DEF IInv, UnusedBeforeInit, NobodySleepsAfterAbort, WaitersHoldNothing
  <2>5. OneHolder'
    BY <1>1, <1>2, <2>2 DEF OneHolder
  <2>6. ConnCountExact'
    <3>1. Live' = (Elements(m_free_list') \union {pConn[c] : c \in Clients}) \ {NULL}
      BY <1>1 DEF Live, Elements
    <3>2. Live' = {conn}
      BY <3>1, <2>2, <1>2, ConnsAssumption
    <3>3. Cardinality(Live') = 1
      BY <3>2, FS_Singleton
    <3> QED BY <3>3, <1>1 DEF ConnCountExact, MIN_DB_CONN_CNT
  <2>7. EnoughWoken'
    BY <1>1 DEF EnoughWoken
  <2> QED BY <2>2, <2>3, <2>4, <2>5, <2>6, <2>7 DEF IInv
<1> QED BY <1>3, <1>4 DEF InitPool

\* So does the destructor, which wakes everybody.
LEMMA DestroyKeeps == IInv /\ Destroy => IInv'
<1> SUFFICES ASSUME IInv, Destroy PROVE IInv'
  OBVIOUS
<1> USE DEF Destroy
<1>1. TypeOK'
  BY EmptyFacts DEF IInv, TypeOK, Entries
<1>2. UnusedBeforeInit' /\ NobodySleepsAfterAbort' /\ WaitersHoldNothing'
  BY DEF IInv, UnusedBeforeInit, NobodySleepsAfterAbort, WaitersHoldNothing
<1>3. NoDuplicates(m_free_list') /\ OneHolder'
  BY EmptyFacts DEF IInv, OneHolder
<1>4. ConnCountExact' /\ EnoughWoken'
  BY DEF ConnCountExact, EnoughWoken
<1> QED BY <1>1, <1>2, <1>3, <1>4 DEF IInv

\* GetDBConn up to its wait.
LEMMA GetDBConnKeeps == ASSUME NEW c \in Clients PROVE IInv /\ GetDBConn(c) => IInv'
<1> SUFFICES ASSUME IInv, GetDBConn(c) PROVE IInv'
  OBVIOUS
<1>1. /\ TypeOK /\ WaitersHoldNothing /\ OneHolder /\ NoDuplicates(m_free_list)
      /\ NobodySleepsAfterAbort /\ ConnCountExact /\ EnoughWoken
      /\ m_free_list \in Seq(Entries)
      /\ state \in {"ready", "deleted"} /\ pc[c] = "idle" /\ calls[c] > 0
      /\ calls' = [calls EXCEPT ![c] = @ - 1]
      /\ UNCHANGED <<m_abort_request, state>>
  BY DEF IInv, GetDBConn, TypeOK, Entries
<1>2. calls' \in [Clients -> 0 .. MaxCalls]
  BY <1>1, MaxAssumption DEF TypeOK
<1>3. UnusedBeforeInit'
  BY <1>1 DEF UnusedBeforeInit
<1>4. Waiters \ {c} = Waiters
  BY <1>1 DEF Waiters
<1>5. m_cond_var \subseteq Waiters
  BY <1>1 DEF TypeOK, Waiters
<1>6. CASE ReturnNull(c) /\ UNCHANGED <<m_db_cur_conn_cnt, m_cond_var>>
  <2>1. /\ pc' \in [Clients -> {"idle", "wait", "waitFor", "holding"}]
        /\ UNCHANGED <<m_free_list, m_used_list, pConn>>
        /\ WaitersHoldNothing' /\ OneHolder' /\ NoDuplicates(m_free_list')
        /\ Live' = Live /\ Waiters' = Waiters
    BY <1>1, <1>4, <1>6, ReturnNullKeeps
  <2>2. TypeOK'
    BY <1>1, <1>2, <1>5, <1>6, <2>1 DEF TypeOK, Waiters
  <2>3. NobodySleepsAfterAbort' /\ ConnCountExact'
    BY <1>1, <1>6, <2>1 DEF NobodySleepsAfterAbort, ConnCountExact
  <2>4. EnoughWoken'
    BY <1>1, <1>6, <2>1 DEF EnoughWoken, Waiters
  <2> QED BY <1>3, <2>1, <2>2, <2>3, <2>4 DEF IInv
<1>7. CASE m_free_list = <<>> /\ BeginWait(c) /\ ~m_abort_request
  <2>1. /\ pc' \in [Clients -> {"idle", "wait", "waitFor", "holding"}]
        /\ \A d \in Clients : pc'[d] = pc[d] \/ (d = c /\ pc'[d] \in {"wait", "waitFor"})
        /\ m_cond_var' = m_cond_var \union {c}
        /\ UNCHANGED <<m_free_list, m_used_list, m_db_cur_conn_cnt, pConn>>
    BY <1>1, <1>7 DEF BeginWait, TypeOK
  <2>2. pc'[c] \in {"wait", "waitFor"}
    BY <1>1, <1>7 DEF BeginWait, TypeOK
  <2>3. Waiters' = Waiters \union {c}
    BY <2>1, <2>2 DEF Waiters
  <2>4. TypeOK'
    BY <1>1, <1>2, <1>5, <2>1, <2>3 DEF TypeOK, Waiters
  <2>5. WaitersHoldNothing'
    BY <1>1, <2>1 DEF WaitersHoldNothing
  <2>6. OneHolder' /\ NoDuplicates(m_free_list') /\ ConnCountExact'
    BY <1>1, <2>1 DEF OneHolder, NoDuplicates, ConnCountExact, Live, Elements
  <2>7. NobodySleepsAfterAbort'
    BY <1>1, <1>7 DEF NobodySleepsAfterAbort
  <2>8. EnoughWoken'
    <3>1. Len(m_free_list') = 0
      BY <1>7, <2>1, EmptyFacts
    <3>2. Cardinality(Waiters' \ m_cond_var') \in Nat
      <4>1. Waiters' \ m_cond_var' = Waiters \ (m_cond_var \union {c})
        BY <2>1, <2>3
      <4> QED BY <4>1, WaitersFinite
    <3> QED BY <3>1, <3>2 DEF EnoughWoken, Waiters
  <2> QED BY <1>3, <2>4, <2>5, <2>6, <2>7, <2>8 DEF IInv
<1>8. CASE /\ m_free_list = <<>>
           /\ \E conn \in Conns \ Live : TakeFront(c, Append(m_free_list, conn))
           /\ m_db_cur_conn_cnt < m_db_max_conn_cnt
           /\ m_db_cur_conn_cnt' = m_db_cur_conn_cnt + 1
           /\ UNCHANGED m_cond_var
  <2>1. PICK conn \in Conns \ Live : TakeFront(c, Append(m_free_list, conn))
    BY <1>8
  <2> DEFINE list == Append(m_free_list, conn)
  <2>2. /\ list \in Seq(Entries) /\ list # <<>> /\ NoDuplicates(list)
        /\ Elements(list) = {conn} /\ Len(list) = 1
    <3>1. list = Append(<<>>, conn) /\ conn \in Entries /\ conn \notin Elements(<<>>)
      BY <1>8, EmptyFacts DEF Entries
    <3>2. /\ Append(<<>>, conn) \in Seq(Entries) /\ Append(<<>>, conn) # <<>>
          /\ NoDuplicates(Append(<<>>, conn))
          /\ Elements(Append(<<>>, conn)) = Elements(<<>>) \union {conn}
          /\ Len(Append(<<>>, conn)) = Len(<<>>) + 1
      BY <3>1, AppendFacts, EmptyFacts
    <3>3. Elements(<<>>) \union {conn} = {conn} /\ Len(<<>>) + 1 = 1
      BY EmptyFacts
    <3> QED BY <3>1, <3>2, <3>3
  <2>3. \A d \in Clients : pConn[d] # NULL => pConn[d] \notin Elements(list)
    BY <2>1, <2>2 DEF Live
  <2> HIDE DEF list
  <2>4. /\ m_free_list' \in Seq(Entries) /\ NoDuplicates(m_free_list')
        /\ Len(m_free_list') = 0
        /\ m_used_list' \subseteq Entries
        /\ pc' \in [Clients -> {"idle", "wait", "waitFor", "holding"}]
        /\ pConn' \in [Clients -> Entries]
        /\ WaitersHoldNothing' /\ OneHolder'
        /\ Live' = (Elements(list) \union {pConn[d] : d \in Clients}) \ {NULL}
        /\ Waiters' = Waiters
    <3>1. TakeFront(c, list) /\ pc[c] # "holding"
      BY <2>1, <1>1 DEF list
    <3>2. Len(list) - 1 = 0
      BY <2>2
    <3> QED BY <3>1, <3>2, <1>1, <1>4, <2>2, <2>3, TakeFrontKeeps
  <2>5. TypeOK'
    BY <1>1, <1>2, <1>5, <1>8, <2>4 DEF TypeOK, Entries, Waiters
  <2>6. NobodySleepsAfterAbort'
    BY <1>1, <1>8 DEF NobodySleepsAfterAbort
  <2>7. ConnCountExact'
    <3>1. Live' = Live \union {conn}
      BY <2>2, <2>4, <1>8, EmptyFacts, ConnsAssumption DEF Live
    <3>2. Cardinality(Live') = Cardinality(Live) + 1
      BY <1>1, <2>1, <3>1, LiveFinite, FS_AddElement
    <3> QED BY <1>1, <1>8, <3>2, LiveFinite, MaxAssumption DEF ConnCountExact, TypeOK
  <2>8. EnoughWoken'
    <3>1. Waiters' \ m_cond_var' = Waiters \ m_cond_var
      BY <1>8, <2>4
    <3>2. Cardinality(Waiters' \ m_cond_var') \in Nat
      BY <3>1, WaitersFinite
    <3> QED BY <3>2, <2>4, EnoughWokenMeans
  <2> QED BY <1>3, <2>4, <2>5, <2>6, <2>7, <2>8 DEF IInv
<1>9. CASE /\ m_free_list # <<>>
           /\ TakeFront(c, m_free_list)
           /\ UNCHANGED <<m_db_cur_conn_cnt, m_cond_var>>
  <2>1. /\ m_free_list' \in Seq(Entries) /\ NoDuplicates(m_free_list')
        /\ Len(m_free_list') = Len(m_free_list) - 1
        /\ m_used_list' \subseteq Entries
        /\ pc' \in [Clients -> {"idle", "wait", "waitFor", "holding"}]
        /\ pConn' \in [Clients -> Entries]
        /\ WaitersHoldNothing' /\ OneHolder'
        /\ Live' = Live
        /\ Waiters' = Waiters
    <3>1. \A d \in Clients : pConn[d] # NULL => pConn[d] \notin Elements(m_free_list)
      BY <1>1 DEF OneHolder
    <3> QED BY <3>1, <1>1, <1>4, <1>9, TakeFrontKeeps DEF Live
  <2>2. TypeOK'
    BY <1>1, <1>2, <1>5, <1>9, <2>1 DEF TypeOK, Entries, Waiters
  <2>3. NobodySleepsAfterAbort' /\ ConnCountExact'
    BY <1>1, <1>9, <2>1 DEF NobodySleepsAfterAbort, ConnCountExact
  <2>4. EnoughWoken'
    <3>1. Waiters' \ m_cond_var' = Waiters \ m_cond_var /\ m_cond_var' = m_cond_var
      BY <1>9, <2>1
    <3>2. Len(m_free_list) \in Nat
      BY <1>1, LenProperties
    <3>3. Cardinality(Waiters \ m_cond_var) \in Nat
      BY WaitersFinite
    <3>4. m_cond_var # {} => Len(m_free_list) <= Cardinality(Waiters \ m_cond_var)
      BY <1>1, EnoughWokenMeans
    <3>5. m_cond_var' # {} => Len(m_free_list') <= Cardinality(Waiters' \ m_cond_var')
      BY <2>1, <3>1, <3>2, <3>3, <3>4
    <3> QED BY <3>5, EnoughWokenMeans
  <2> QED BY <1>3, <2>1, <2>2, <2>3, <2>4 DEF IInv
<1> QED BY <1>6, <1>7, <1>8, <1>9 DEF GetDBConn, Open

\* The end of a call that waited, woken or not.
LEMMA AfterWaitKeeps ==
  ASSUME IInv, NEW c \in Clients, pc[c] \in {"wait", "waitFor"},
         m_cond_var' = m_cond_var \ {c}, AfterWait(c),
         UNCHANGED <<m_db_cur_conn_cnt, m_abort_request, calls, state>>
  PROVE  IInv'
<1>1. /\ TypeOK /\ WaitersHoldNothing /\ OneHolder /\ NoDuplicates(m_free_list)
      /\ NobodySleepsAfterAbort /\ ConnCountExact /\ EnoughWoken /\ UnusedBeforeInit
      /\ m_free_list \in Seq(Entries)
      /\ pc[c] # "holding"
  BY DEF IInv, TypeOK, Entries
<1>2. state \notin {"new", "failed"}
  BY <1>1 DEF UnusedBeforeInit
<1>3. UnusedBeforeInit'
  BY <1>2 DEF UnusedBeforeInit
<1>4. NobodySleepsAfterAbort'
  BY <1>1 DEF NobodySleepsAfterAbort
<1>5. m_cond_var \subseteq Waiters /\ c \in Waiters
  BY <1>1 DEF TypeOK, Waiters
<1>6. (Waiters \ {c}) \ (m_cond_var \ {c}) = (Waiters \ m_cond_var) \ {c}
  OBVIOUS
<1>7. /\ Cardinality(Waiters \ m_cond_var) \in Nat
      /\ Cardinality((Waiters \ m_cond_var) \ {c}) \in Nat
      /\ Cardinality((Waiters \ m_cond_var) \ {c}) >= Cardinality(Waiters \ m_cond_var) - 1
  <2>1. IsFiniteSet(Waiters \ m_cond_var) /\ Cardinality(Waiters \ m_cond_var) \in Nat
    BY WaitersFinite
  <2>2. /\ IsFiniteSet((Waiters \ m_cond_var) \ {c})
        /\ Cardinality((Waiters \ m_cond_var) \ {c})
             = IF c \in Waiters \ m_cond_var THEN Cardinality(Waiters \ m_cond_var) - 1
                                             ELSE Cardinality(Waiters \ m_cond_var)
    BY <2>1, FS_RemoveElement
  <2>3. Cardinality((Waiters \ m_cond_var) \ {c}) \in Nat
    BY <2>2, FS_CardinalityType
  <2> QED BY <2>1, <2>2, <2>3
<1>8. Len(m_free_list) \in Nat
  BY <1>1, LenProperties
<1>9. m_cond_var # {} => Len(m_free_list) <= Cardinality(Waiters \ m_cond_var)
  BY <1>1, EnoughWokenMeans
<1>10. CASE (m_abort_request \/ m_free_list = <<>>) /\ ReturnNull(c)
  <2>1. /\ pc' \in [Clients -> {"idle", "wait", "waitFor", "holding"}]
        /\ UNCHANGED <<m_free_list, m_used_list, pConn>>
        /\ WaitersHoldNothing' /\ OneHolder' /\ NoDuplicates(m_free_list')
        /\ Live' = Live /\ Waiters' = Waiters \ {c}
    BY <1>1, <1>10, ReturnNullKeeps
  <2>2. TypeOK'
    <3>1. m_cond_var' \subseteq Waiters'
      BY <1>5, <2>1
    <3> QED BY <1>1, <2>1, <3>1 DEF TypeOK, Waiters
  <2>3. ConnCountExact'
    BY <1>1, <2>1 DEF ConnCountExact
  <2>4. EnoughWoken'
    <3>1. m_cond_var' # {} => Len(m_free_list') = 0
      BY <1>1, <1>10, <2>1, EmptyFacts DEF NobodySleepsAfterAbort
    <3>2. Waiters' \ m_cond_var' = (Waiters \ m_cond_var) \ {c}
      BY <1>6, <2>1
    <3>3. Cardinality(Waiters' \ m_cond_var') \in Nat
      BY <1>7, <3>2
    <3> QED BY <3>1, <3>3, EnoughWokenMeans
  <2> QED BY <1>3, <1>4, <2>1, <2>2, <2>3, <2>4 DEF IInv
<1>11. CASE m_free_list # <<>> /\ TakeFront(c, m_free_list)
  <2>1. /\ m_free_list' \in Seq(Entries) /\ NoDuplicates(m_free_list')
        /\ Len(m_free_list') = Len(m_free_list) - 1
        /\ m_used_list' \subseteq Entries
        /\ pc' \in [Clients -> {"idle", "wait", "waitFor", "holding"}]
        /\ pConn' \in [Clients -> Entries]
        /\ WaitersHoldNothing' /\ OneHolder'
        /\ Live' = Live
        /\ Waiters' = Waiters \ {c}
    <3>1. \A d \in Clients : pConn[d] # NULL => pConn[d] \notin Elements(m_free_list)
      BY <1>1 DEF OneHolder
    <3> QED BY <3>1, <1>1, <1>11, TakeFrontKeeps DEF Live
  <2>2. TypeOK'
    <3>1. m_cond_var' \subseteq Waiters'
      BY <1>5, <2>1
    <3> QED BY <1>1, <2>1, <3>1 DEF TypeOK, Waiters, Entries
  <2>3. ConnCountExact'
    BY <1>1, <2>1 DEF ConnCountExact
  <2>4. EnoughWoken'
    <3>1. Waiters' \ m_cond_var' = (Waiters \ m_cond_var) \ {c}
      BY <1>6, <2>1
    <3>2. m_cond_var' # {} => Len(m_free_list') <= Cardinality(Waiters' \ m_cond_var')
      <4>1. SUFFICES ASSUME m_cond_var' # {}
                     PROVE  Len(m_free_list') <= Cardinality(Waiters' \ m_cond_var')
        OBVIOUS
      <4>2. m_cond_var # {}
        BY <4>1
      <4>3. Len(m_free_list) <= Cardinality(Waiters \ m_cond_var)
        BY <4>2, <1>9
      <4>4. Cardinality(Waiters' \ m_cond_var') >= Cardinality(Waiters \ m_cond_var) - 1
        BY <1>7, <3>1
      <4>5. Cardinality(Waiters' \ m_cond_var') \in Nat
        BY <1>7, <3>1
      <4>6. Len(m_free_list') = Len(m_free_list) - 1
        BY <2>1
      <4> QED BY <4>3, <4>4, <4>5, <4>6, <1>7, <1>8
    <3> QED BY <3>2, EnoughWokenMeans
  <2> QED BY <1>3, <1>4, <2>1, <2>2, <2>3, <2>4 DEF IInv
<1> QED BY <1>10, <1>11 DEF AfterWait

\* The timeout of wait_for, which looks at the list once more.
LEMMA GetTimeoutKeeps == ASSUME NEW c \in Clients PROVE IInv /\ GetTimeout(c) => IInv'
  BY AfterWaitKeeps DEF GetTimeout

\* Woken, a waiter takes a connection or waits again.
LEMMA GetWokenKeeps == ASSUME NEW c \in Clients PROVE IInv /\ GetWoken(c) => IInv'
<1> SUFFICES ASSUME IInv, GetWoken(c) PROVE IInv'
  OBVIOUS
<1>1. /\ pc[c] \in {"wait", "waitFor"} /\ c \notin m_cond_var
      /\ UNCHANGED <<m_db_cur_conn_cnt, m_abort_request, calls, state>>
  BY DEF GetWoken
<1>2. CASE AfterWait(c) /\ UNCHANGED m_cond_var
  <2>1. m_cond_var' = m_cond_var \ {c}
    BY <1>1, <1>2
  <2> QED BY <1>1, <1>2, <2>1, AfterWaitKeeps
<1>3. CASE /\ m_free_list = <<>> /\ ~m_abort_request
           /\ m_cond_var' = m_cond_var \union {c}
           /\ UNCHANGED <<m_free_list, m_used_list, pc, pConn>>
  <2>1. TypeOK'
    BY <1>1, <1>3 DEF IInv, TypeOK
  <2>2. /\ WaitersHoldNothing' /\ OneHolder' /\ NoDuplicates(m_free_list')
        /\ ConnCountExact' /\ NobodySleepsAfterAbort'
    BY <1>1, <1>3 DEF IInv, WaitersHoldNothing, OneHolder, NoDuplicates, Elements,
                      ConnCountExact, Live, NobodySleepsAfterAbort
  <2>3. UnusedBeforeInit'
    BY <1>1, <1>3 DEF IInv, UnusedBeforeInit
  <2>4. EnoughWoken'
    <3>1. Waiters' \ m_cond_var' = Waiters \ (m_cond_var \union {c})
      BY <1>3 DEF Waiters
    <3>2. Cardinality(Waiters' \ m_cond_var') \in Nat
      BY <3>1, WaitersFinite
    <3>3. Len(m_free_list') = 0
      BY <1>3, EmptyFacts
    <3> QED BY <3>2, <3>3, EnoughWokenMeans
  <2> QED BY <2>1, <2>2, <2>3, <2>4 DEF IInv
<1> QED BY <1>2, <1>3 DEF GetWoken

\* One waiter more is awake.
LEMMA OneMoreAwake ==
  ASSUME NEW W, NEW S, NEW d \in S, S \subseteq W, IsFiniteSet(W)
  PROVE  /\ Cardinality(W \ S) \in Nat
         /\ Cardinality(W \ (S \ {d})) = Cardinality(W \ S) + 1
<1>1. IsFiniteSet(W \ S)
  BY FS_Difference
<1>2. W \ (S \ {d}) = (W \ S) \union {d} /\ d \notin W \ S
  OBVIOUS
<1>3. Cardinality(W \ S) \in Nat
  BY <1>1, FS_CardinalityType
<1>4. Cardinality((W \ S) \union {d}) = Cardinality(W \ S) + 1
  BY <1>1, <1>2, FS_AddElement
<1> QED BY <1>2, <1>3, <1>4

\* A wakeup nobody sent.
LEMMA SpuriousWakeupKeeps ==
  ASSUME NEW c \in Clients PROVE IInv /\ SpuriousWakeup(c) => IInv'
<1> SUFFICES ASSUME IInv, SpuriousWakeup(c) PROVE IInv'
  OBVIOUS
<1> USE DEF SpuriousWakeup
<1>1. TypeOK'
  BY DEF IInv, TypeOK
<1>2. /\ WaitersHoldNothing' /\ OneHolder' /\ NoDuplicates(m_free_list')
      /\ ConnCountExact' /\ NobodySleepsAfterAbort'
  BY DEF IInv, WaitersHoldNothing, OneHolder, NoDuplicates, Elements,
         ConnCountExact, Live, NobodySleepsAfterAbort
<1>3. UnusedBeforeInit'
  BY DEF IInv, UnusedBeforeInit
<1>4. EnoughWoken'
  <2>1. m_cond_var \subseteq Waiters /\ IsFiniteSet(Waiters)
    BY FS_Subset, ClientsAssumption DEF IInv, TypeOK, Waiters
  <2>2. Waiters' = Waiters
    BY DEF Waiters
  <2>3. Cardinality(Waiters' \ m_cond_var') = Cardinality(Waiters \ m_cond_var) + 1
    BY <2>1, <2>2, OneMoreAwake
  <2>4. Cardinality(Waiters \ m_cond_var) \in Nat
    BY WaitersFinite
  <2>5. Len(m_free_list) \in Nat /\ m_free_list' = m_free_list
    BY LenProperties DEF IInv, TypeOK
  <2>6. m_cond_var # {} => Len(m_free_list) <= Cardinality(Waiters \ m_cond_var)
    BY EnoughWokenMeans DEF IInv
  <2>7. m_cond_var # {}
    OBVIOUS
  <2>8. Len(m_free_list') <= Cardinality(Waiters' \ m_cond_var')
    BY <2>3, <2>4, <2>5, <2>6, <2>7
  <2> QED BY <2>8, EnoughWokenMeans
<1> QED BY <1>1, <1>2, <1>3, <1>4 DEF IInv

\* RelDBConn, for a connection, for NULL, and for NULL when it is in the list already.
LEMMA RelDBConnKeeps == ASSUME NEW c \in Clients PROVE IInv /\ RelDBConn(c) => IInv'
<1> SUFFICES ASSUME IInv, RelDBConn(c) PROVE IInv'
  OBVIOUS
<1>1. /\ TypeOK /\ WaitersHoldNothing /\ OneHolder /\ NoDuplicates(m_free_list)
      /\ NobodySleepsAfterAbort /\ ConnCountExact /\ EnoughWoken /\ UnusedBeforeInit
      /\ m_free_list \in Seq(Entries)
      /\ pc[c] = "holding" /\ pConn[c] \in Entries
      /\ UNCHANGED <<m_db_cur_conn_cnt, m_abort_request, calls, state>>
  BY DEF IInv, TypeOK, Entries, RelDBConn
<1>2. /\ pc' = [pc EXCEPT ![c] = "idle"]
      /\ pConn' = [pConn EXCEPT ![c] = NULL]
  BY DEF RelDBConn
<1>3. /\ pc' \in [Clients -> {"idle", "wait", "waitFor", "holding"}]
      /\ \A d \in Clients : pc'[d] = IF d = c THEN "idle" ELSE pc[d]
  BY <1>1, <1>2 DEF TypeOK
<1>4. /\ pConn' \in [Clients -> Entries]
      /\ \A d \in Clients : pConn'[d] = IF d = c THEN NULL ELSE pConn[d]
  BY <1>1, <1>2 DEF TypeOK, Entries
<1>5. UnusedBeforeInit'
  BY <1>1 DEF UnusedBeforeInit
<1>6. WaitersHoldNothing'
  BY <1>1, <1>3, <1>4 DEF WaitersHoldNothing
<1>7. Waiters' = Waiters
  BY <1>1, <1>3 DEF Waiters
<1>8. m_cond_var \subseteq Waiters /\ IsFiniteSet(Waiters)
  BY <1>1, FS_Subset, ClientsAssumption DEF TypeOK, Waiters
<1>9. /\ Cardinality(Waiters \ m_cond_var) \in Nat
      /\ Len(m_free_list) \in Nat
      /\ m_cond_var # {} => Len(m_free_list) <= Cardinality(Waiters \ m_cond_var)
  BY <1>1, WaitersFinite, LenProperties, EnoughWokenMeans
\* The result is not in the list: it goes there, and one waiter is woken.
<1>10. CASE /\ pConn[c] \notin Elements(m_free_list)
            /\ m_used_list' = m_used_list \ {pConn[c]}
            /\ m_free_list' = Append(m_free_list, pConn[c])
            /\ NotifyOne
  <2>1. /\ m_free_list' \in Seq(Entries)
        /\ Len(m_free_list') = Len(m_free_list) + 1
        /\ NoDuplicates(m_free_list')
        /\ Elements(m_free_list') = Elements(m_free_list) \union {pConn[c]}
    BY <1>1, <1>10, AppendFacts
  <2>2. m_cond_var' \subseteq m_cond_var
    BY <1>10 DEF NotifyOne
  <2>3. TypeOK'
    <3>1. m_cond_var' \subseteq Waiters' /\ m_used_list' \subseteq Entries
      BY <1>1, <1>7, <1>8, <1>10, <2>2 DEF TypeOK, Entries
    <3> QED BY <1>1, <1>3, <1>4, <2>1, <3>1 DEF TypeOK, Waiters, Entries
  <2>4. NobodySleepsAfterAbort'
    BY <1>1, <2>2 DEF NobodySleepsAfterAbort
  <2>5. OneHolder'
    <3>1. \A d, e \in Clients : pConn'[d] = pConn'[e] /\ pConn'[d] # NULL => d = e
      BY <1>1, <1>4 DEF OneHolder
    <3>2. \A d \in Clients : pConn'[d] # NULL => pConn'[d] \notin Elements(m_free_list')
      BY <1>1, <1>4, <2>1 DEF OneHolder
    <3>3. \A d \in Clients : pConn'[d] # NULL => pConn'[d] \in m_used_list'
      BY <1>1, <1>4, <1>10 DEF OneHolder
    <3>4. \A conn \in m_used_list' \ {NULL} : \E d \in Clients : pConn'[d] = conn
      <4>1. SUFFICES ASSUME NEW conn \in m_used_list' \ {NULL}
                     PROVE  \E d \in Clients : pConn'[d] = conn
        OBVIOUS
      <4>2. PICK d \in Clients : pConn[d] = conn
        BY <1>1, <1>10 DEF OneHolder
      <4>3. d # c
        BY <4>2, <1>10
      <4> QED BY <4>2, <4>3, <1>4
    <3> QED BY <3>1, <3>2, <3>3, <3>4 DEF OneHolder
  <2>6. ConnCountExact'
    <3>1. {pConn'[d] : d \in Clients} \union {pConn[c], NULL}
            = {pConn[d] : d \in Clients} \union {NULL}
      BY <1>4
    <3>2. Live' = (Elements(m_free_list') \union {pConn'[d] : d \in Clients}) \ {NULL}
      BY DEF Live, Elements
    <3>3. Live' = Live
      BY <2>1, <3>1, <3>2 DEF Live
    <3> QED BY <1>1, <3>3 DEF ConnCountExact
  <2>7. EnoughWoken'
    <3>1. CASE m_cond_var = {}
      BY <3>1, <2>2 DEF EnoughWoken
    <3>2. CASE m_cond_var # {}
      <4>1. PICK d \in m_cond_var : m_cond_var' = m_cond_var \ {d}
        BY <3>2, <1>10 DEF NotifyOne
      <4>2. Cardinality(Waiters' \ m_cond_var') = Cardinality(Waiters \ m_cond_var) + 1
        BY <4>1, <1>7, <1>8, OneMoreAwake
      <4>3. Len(m_free_list') <= Cardinality(Waiters' \ m_cond_var')
        BY <4>2, <3>2, <1>9, <2>1
      <4> QED BY <4>3, EnoughWokenMeans
    <3> QED BY <3>1, <3>2
  <2> QED BY <1>5, <1>6, <2>1, <2>3, <2>4, <2>5, <2>6, <2>7 DEF IInv
\* It is there already, which can only be NULL.
<1>11. CASE /\ pConn[c] \in Elements(m_free_list)
            /\ UNCHANGED <<m_free_list, m_used_list, m_cond_var>>
  <2>1. pConn[c] = NULL
    BY <1>1, <1>11 DEF OneHolder
  <2>2. pConn' = pConn
    BY <1>1, <1>2, <2>1 DEF TypeOK
  <2>3. TypeOK'
    <3>1. m_cond_var' \subseteq Waiters'
      BY <1>7, <1>8, <1>11
    <3> QED BY <1>1, <1>3, <1>11, <2>2, <3>1 DEF TypeOK, Waiters
  <2>4. /\ OneHolder' /\ NoDuplicates(m_free_list')
        /\ ConnCountExact' /\ NobodySleepsAfterAbort'
    BY <1>1, <1>11, <2>2 DEF OneHolder, NoDuplicates, Elements, ConnCountExact, Live,
                             NobodySleepsAfterAbort
  <2>5. EnoughWoken'
    <3>1. Waiters' \ m_cond_var' = Waiters \ m_cond_var
      BY <1>7, <1>11
    <3>2. m_cond_var' # {} => Len(m_free_list') <= Cardinality(Waiters' \ m_cond_var')
      BY <1>9, <1>11, <3>1
    <3> QED BY <3>2, EnoughWokenMeans
  <2> QED BY <1>5, <1>6, <2>3, <2>4, <2>5 DEF IInv
<1> QED BY <1>10, <1>11 DEF RelDBConn

\* Nothing happens.
LEMMA StutterKeeps == IInv /\ UNCHANGED vars => IInv'
  BY DEF vars, IInv, TypeOK, UnusedBeforeInit, NobodySleepsAfterAbort, WaitersHoldNothing,
         NoDuplicates, OneHolder, Elements, ConnCountExact, Live, EnoughWoken

\* Every step of the pool and of its clients keeps the invariant.
LEMMA NextKeeps == IInv /\ [Next]_vars => IInv'
<1> SUFFICES ASSUME IInv, [Next]_vars PROVE IInv'
  OBVIOUS
<1>1. CASE InitPool
  BY <1>1, InitPoolKeeps
<1>2. CASE Destroy
  BY <1>2, DestroyKeeps
<1>3. ASSUME NEW c \in Clients, GetDBConn(c) PROVE IInv'
  BY <1>3, GetDBConnKeeps
<1>4. ASSUME NEW c \in Clients, GetWoken(c) PROVE IInv'
  BY <1>4, GetWokenKeeps
<1>5. ASSUME NEW c \in Clients, GetTimeout(c) PROVE IInv'
  BY <1>5, GetTimeoutKeeps
<1>6. ASSUME NEW c \in Clients, SpuriousWakeup(c) PROVE IInv'
  BY <1>6, SpuriousWakeupKeeps
<1>7. ASSUME NEW c \in Clients, RelDBConn(c) PROVE IInv'
  BY <1>7, RelDBConnKeeps
<1>8. CASE UNCHANGED vars
  BY <1>8, StutterKeeps
<1> QED BY <1>1, <1>2, <1>3, <1>4, <1>5, <1>6, <1>7, <1>8 DEF Next

-----------------------------------------------------------------------------
(* What follows                                                              *)

\* The invariant holds in every state of the pool (DBPool.cpp), whatever its clients do.
THEOREM Invariance == Spec => []IInv
  BY InitHolds, NextKeeps, PTL DEF Spec

\* The counts in ConnExclusive are those of OneHolder and NoDuplicates.
LEMMA ExclusiveCounts == IInv => ConnExclusive
<1> SUFFICES ASSUME IInv, NEW conn \in Conns
             PROVE  /\ Cardinality({i \in DOMAIN m_free_list : m_free_list[i] = conn})
                         + Cardinality(Holders(conn)) <= 1
                    /\ conn \in m_used_list <=> Holders(conn) # {}
  BY DEF ConnExclusive
<1> DEFINE Places == {i \in DOMAIN m_free_list : m_free_list[i] = conn}
<1>1. conn # NULL
  BY ConnsAssumption
<1>2. \A i, j \in Places : i = j
  BY DEF IInv, NoDuplicates
<1>3. \A c, d \in Holders(conn) : c = d
  BY <1>1 DEF IInv, OneHolder, Holders
<1>4. Places = {} \/ Holders(conn) = {}
  BY <1>1 DEF IInv, OneHolder, Holders, Elements
<1>5. Cardinality(Places) = 0 \/ Cardinality(Places) = 1
  <2>1. Places = {} \/ \E i : Places = {i}
    BY <1>2
  <2> QED BY <2>1, FS_EmptySet, FS_Singleton
<1>6. Cardinality(Holders(conn)) = 0 \/ Cardinality(Holders(conn)) = 1
  <2>1. Holders(conn) = {} \/ \E c : Holders(conn) = {c}
    BY <1>3
  <2> QED BY <2>1, FS_EmptySet, FS_Singleton
<1>7. Cardinality(Places) + Cardinality(Holders(conn)) <= 1
  <2>1. CASE Places = {}
    BY <2>1, <1>6, FS_EmptySet
  <2>2. CASE Holders(conn) = {}
    BY <2>2, <1>5, FS_EmptySet
  <2> QED BY <2>1, <2>2, <1>4
<1>8. conn \in m_used_list <=> Holders(conn) # {}
  BY <1>1 DEF IInv, OneHolder, Holders
<1> QED BY <1>7, <1>8

\* A connection has one user at a time and the count of connections is exact, for any
\* number of clients that time out, barge in and release NULL (GetDBConn, RelDBConn).
THEOREM ConnectionSafety == Spec => []ConnsAccounted
<1>1. IInv => ConnsAccounted
  BY ExclusiveCounts DEF IInv, ConnsAccounted
<1> QED BY <1>1, Invariance, PTL

\* No wakeup is lost (RelDBConn's notify_one), with any number of waiters.
THEOREM WakeupSafety == Spec => []EnoughWoken
<1>1. IInv => EnoughWoken
  BY DEF IInv
<1> QED BY <1>1, Invariance, PTL

\* A pool whose destructor has run hands out no connection (GetDBConn).
THEOREM AbortSafety == Spec => NothingAfterAbort
<1>1. TypeOK /\ [Next]_vars =>
        [m_abort_request => \A c \in Clients : pc[c] # "holding" /\ pc'[c] = "holding"
                                                 => pConn'[c] = NULL]_vars
  <2> SUFFICES ASSUME TypeOK, [Next]_vars, m_abort_request,
                      NEW c \in Clients, pc[c] # "holding", pc'[c] = "holding"
               PROVE  pConn'[c] = NULL
    OBVIOUS
  <2>1. pc \in [Clients -> {"idle", "wait", "waitFor", "holding"}]
        /\ pConn \in [Clients -> Entries]
    BY DEF TypeOK, Entries
  <2>2. ASSUME NEW d \in Clients, ReturnNull(d) PROVE pConn'[c] = NULL
    BY <2>1, <2>2 DEF ReturnNull
  <2>3. CASE InitPool \/ Destroy \/ UNCHANGED vars
    BY <2>3 DEF InitPool, Destroy, vars
  <2>4. ASSUME NEW d \in Clients, GetDBConn(d) PROVE pConn'[c] = NULL
    BY <2>2, <2>4 DEF GetDBConn
  <2>5. ASSUME NEW d \in Clients, GetWoken(d) \/ GetTimeout(d) PROVE pConn'[c] = NULL
    BY <2>2, <2>5 DEF GetWoken, GetTimeout, AfterWait
  <2>6. ASSUME NEW d \in Clients, SpuriousWakeup(d) PROVE pConn'[c] = NULL
    BY <2>6 DEF SpuriousWakeup
  <2>7. ASSUME NEW d \in Clients, RelDBConn(d) PROVE pConn'[c] = NULL
    BY <2>1, <2>7 DEF RelDBConn
  <2> QED BY <2>3, <2>4, <2>5, <2>6, <2>7 DEF Next
<1>2. IInv => TypeOK
  BY DEF IInv
<1> QED BY <1>1, <1>2, Invariance, PTL DEF Spec, NothingAfterAbort
=============================================================================
