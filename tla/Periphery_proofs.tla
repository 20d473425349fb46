--------------------------- MODULE Periphery_proofs ---------------------------
(***************************************************************************)
(* What holds of the assistant, the package manager, the mesh and the      *)
(* service registry for any number of threads, models, packages, nodes and *)
(* services.                                                               *)
(***************************************************************************)
EXTENDS Assistant, PackageManager, Mesh, Extensions,
        FiniteSetTheorems, SequenceTheorems, WellFoundedInduction, TLAPS

-----------------------------------------------------------------------------
\* The assistant.  A query that is under way keeps every name that was active
\* since it began, the present one among them, and the engine is that of the
\* present name or the stub: the two change together.
Active0 == Models \cup {Ollama, OpenAI, None}
Query == [at : {"asked", "infer"}, id : Nat, met : SUBSET Active0]
         \cup [at : {"inferring"}, id : Nat, met : SUBSET Active0,
               by : Active0 \cup {Stub}]

QueryInv ==
  /\ DOMAIN doing = Askers /\ queries \in Nat /\ library \subseteq Models
  /\ active \in Active0 /\ engine \in {active, Stub}
  /\ \A t \in Askers :
       /\ Querying(t) => doing[t] \in Query /\ active \in doing[t].met
       /\ doing[t].at = "inferring" => doing[t].by \in doing[t].met \cup {Stub}
       /\ doing[t].at = "load" => doing[t].of \in Models

\* Nobody meets a new name unawares.
LEMMA ActivatesKeeps ==
  ASSUME QueryInv, NEW name \in Active0, NEW made \in {name, Stub}, NEW others,
         Activates(name, made, others), DOMAIN others = Askers,
         \A t \in Askers : others[t] = doing[t] \/ (~ Querying(t) /\ others[t] = Resting),
         UNCHANGED <<queries, library>>
  PROVE  QueryInv'
<1>1. active' = name /\ engine' = made
  BY DEF Activates
<1>2. doing' = [t \in Askers |->
         IF Querying(t) THEN [others[t] EXCEPT !.met = @ \cup {name}] ELSE others[t]]
  BY DEF Activates
<1> SUFFICES ASSUME NEW t \in Askers
             PROVE  /\ Querying(t)' => doing'[t] \in Query /\ name \in doing'[t].met
                    /\ doing'[t].at = "inferring" => doing'[t].by \in doing'[t].met \cup {Stub}
                    /\ doing'[t].at = "load" => doing'[t].of \in Models
  BY <1>1, <1>2 DEF QueryInv
<1>3. CASE Querying(t)
  <2>1. doing'[t] = [doing[t] EXCEPT !.met = @ \cup {name}] /\ doing[t] \in Query
    BY <1>2, <1>3 DEF QueryInv
  <2>2. /\ doing'[t] \in Query /\ doing'[t].met = doing[t].met \cup {name}
        /\ doing'[t].at = doing[t].at
        /\ doing[t].at = "inferring" => doing'[t].by = doing[t].by
    BY <2>1 DEF Query
  <2> QED  BY <1>3, <2>2 DEF QueryInv, Querying
<1>4. CASE ~ Querying(t)
  <2>1. doing'[t] = doing[t] \/ doing'[t] = Resting  BY <1>2, <1>4
  <2>2. CASE doing'[t] = doing[t]
    BY <1>4, <2>2 DEF QueryInv, Querying
  <2>3. CASE doing'[t] = Resting
    <3>1. Resting.at = "rest"  BY DEF Resting
    <3>2. doing'[t].at = "rest"  BY <2>3, <3>1
    <3> QED  BY <3>2 DEF Querying
  <2> QED  BY <2>1, <2>2, <2>3
<1> QED  BY <1>3, <1>4

LEMMA NewQuery ==
  ASSUME NEW q \in Nat, NEW a \in Active0
  PROVE  LET d == [at |-> "asked", id |-> q, met |-> {a}]
         IN  d \in Query /\ a \in d.met /\ d.at = "asked"
<1>1. {a} \in SUBSET Active0  OBVIOUS
<1> QED  BY <1>1 DEF Query

\* A thread that moves by itself, with the model as it is.
LEMMA AskerMoves ==
  ASSUME QueryInv, NEW t \in Askers, NEW d, doing' = [doing EXCEPT ![t] = d],
         UNCHANGED <<active, engine, library>>, queries' \in Nat,
         d.at \in {"asked", "infer", "inferring"} => d \in Query /\ active \in d.met,
         d.at = "inferring" => d.by \in d.met \cup {Stub},
         d.at = "load" => d.of \in Models
  PROVE  QueryInv'
<1>1. DOMAIN doing' = Askers /\ doing'[t] = d /\ \A u \in Askers : u # t => doing'[u] = doing[u]
  BY DEF QueryInv
<1> QED  BY <1>1 DEF QueryInv, Querying

LEMMA AssistantStep ==
  ASSUME QueryInv, AssistantNext \/ UNCHANGED assistantVars
  PROVE  QueryInv'
<1>1. CASE UNCHANGED <<active, engine, doing, queries>> /\ library' \subseteq Models
  BY <1>1 DEF QueryInv, Querying
<1>2. CASE Reboot
  BY <1>2 DEF Reboot, LoadRegistry, QueryInv, Querying, Resting, Active0
<1>3. ASSUME NEW t \in Askers, NEW m \in Models, LoadLooks(t, m) PROVE QueryInv'
  <2> DEFINE d == [at |-> "load", of |-> m]
  <2>1. doing' = [doing EXCEPT ![t] = d] /\ UNCHANGED <<active, engine, library, queries>>
    BY <1>3 DEF LoadLooks
  <2>2. d.at = "load" /\ d.of \in Models  OBVIOUS
  <2> HIDE DEF d
  <2> QED  BY <2>1, <2>2, AskerMoves DEF QueryInv
<1>4. ASSUME NEW t \in Askers, LoadSets(t) PROVE QueryInv'
  <2> DEFINE others == [doing EXCEPT ![t] = Resting]
  <2>1. PICK made \in EngineMade(doing[t].of) : Activates(doing[t].of, made, others)
    BY <1>4 DEF LoadSets
  <2>2. doing[t].at = "load" /\ doing[t].of \in Models /\ UNCHANGED <<queries, library>>
    BY <1>4 DEF LoadSets, QueryInv
  <2>3. PICK m \in Models : m = doing[t].of  BY <2>2
  <2>4. Activates(m, made, others) /\ made \in {m, Stub} /\ m \in Active0
    BY <2>1, <2>3 DEF EngineMade, Active0
  <2>5. DOMAIN others = Askers
        /\ \A u \in Askers : others[u] = doing[u] \/ (~ Querying(u) /\ others[u] = Resting)
    BY <2>2 DEF QueryInv, Querying
  <2> HIDE DEF others
  <2> QED  BY <2>2, <2>4, <2>5, ActivatesKeeps
<1>5. ASSUME NEW t \in Askers, Unload(t) \/ LoadOllama(t) \/ LoadOpenAI(t) PROVE QueryInv'
  <2>1. PICK name \in Active0, made \in Active0 \cup {Stub} :
        made \in {name, Stub} /\ Activates(name, made, doing)
    BY <1>5 DEF Unload, LoadOllama, LoadOpenAI, Active0
  <2>2. UNCHANGED <<queries, library>> /\ DOMAIN doing = Askers
    BY <1>5 DEF Unload, LoadOllama, LoadOpenAI, QueryInv
  <2> QED  BY <2>1, <2>2, ActivatesKeeps
<1>6. ASSUME NEW t \in Askers, QueryBegins(t) PROVE QueryInv'
  <2> DEFINE d == [at |-> "asked", id |-> queries + 1, met |-> {active}]
  <2>1. doing' = [doing EXCEPT ![t] = d] /\ UNCHANGED <<active, engine, library>> /\ queries' = queries + 1
    BY <1>6 DEF QueryBegins
  <2>2. queries + 1 \in Nat /\ active \in Active0
    BY DEF QueryInv
  <2>3. d \in Query /\ active \in d.met /\ d.at = "asked"
    BY <2>2, NewQuery
  <2> HIDE DEF d
  <2> QED  BY <2>1, <2>2, <2>3, AskerMoves
<1>7. ASSUME NEW t \in Askers, QueryLooks(t) \/ InferAnswers(t) \/ InferRaises(t) \/ SaveWrites(t)
      PROVE  QueryInv'
  <2>1. UNCHANGED <<active, engine, library, queries>>
    BY <1>7 DEF QueryLooks, InferAnswers, InferRaises, SaveWrites, Answers
  <2>2. CASE doing' = [doing EXCEPT ![t] = Resting]
    BY <2>1, <2>2, AskerMoves DEF Resting, QueryInv
  <2>3. CASE doing[t].at = "asked" /\ doing' = [doing EXCEPT ![t].at = "infer"]
    <3> DEFINE d == [doing[t] EXCEPT !.at = "infer"]
    <3>1. doing[t] \in Query /\ active \in doing[t].met  BY <2>3 DEF QueryInv, Querying
    <3>2. d \in Query /\ active \in d.met /\ d.at = "infer"  BY <2>3, <3>1 DEF Query
    <3>3. doing' = [doing EXCEPT ![t] = d]  BY <2>3
    <3> HIDE DEF d
    <3> QED  BY <2>1, <3>2, <3>3, AskerMoves DEF QueryInv
  <2> QED  BY <1>7, <2>2, <2>3 DEF QueryLooks, InferAnswers, InferRaises, SaveWrites, Answers
<1>8. ASSUME NEW t \in Askers, InferTakes(t) PROVE QueryInv'
  <2> DEFINE d == [at |-> "inferring", id |-> doing[t].id, met |-> doing[t].met, by |-> engine]
  <2>1. doing[t] \in Query /\ active \in doing[t].met /\ doing[t].at = "infer"
    BY <1>8 DEF InferTakes, QueryInv, Querying
  <2>2. doing' = [doing EXCEPT ![t] = d] /\ UNCHANGED <<active, engine, library, queries>>
    BY <1>8 DEF InferTakes
  <2>3. doing[t].id \in Nat /\ doing[t].met \subseteq Active0  BY <2>1 DEF Query
  <2>4. engine \in doing[t].met \cup {Stub} /\ engine \in Active0 \cup {Stub}
    BY <2>1 DEF QueryInv
  <2>5. d \in Query /\ active \in d.met /\ d.by \in d.met \cup {Stub} /\ d.at = "inferring"
    BY <2>1, <2>3, <2>4 DEF Query
  <2> HIDE DEF d
  <2> QED  BY <2>2, <2>5, AskerMoves DEF QueryInv
<1>9. ASSUME NEW t \in Askers, SaveOpens(t) PROVE QueryInv'
  <2> DEFINE d == [at |-> "save", what |-> turns]
  <2>1. doing' = [doing EXCEPT ![t] = d] /\ UNCHANGED <<active, engine, library, queries>>
    BY <1>9 DEF SaveOpens
  <2>2. d.at = "save"  OBVIOUS
  <2> HIDE DEF d
  <2> QED  BY <2>1, <2>2, AskerMoves DEF QueryInv
<1>10. ASSUME UNCHANGED assistantVars \/ ScanModels \/ (\E m \in Models : RegisterModel(m))
       PROVE  UNCHANGED <<active, engine, doing, queries>> /\ library' \subseteq Models
  BY <1>10 DEF assistantVars, ScanModels, RegisterModel, SavesRegistry, QueryInv
<1> QED
  BY <1>1, <1>2, <1>3, <1>4, <1>5, <1>6, <1>7, <1>8, <1>9, <1>10 DEF AssistantNext, ModelCommand

LEMMA QueryInit == AssistantInit => QueryInv
<1> SUFFICES ASSUME AssistantInit PROVE QueryInv
  OBVIOUS
<1>1. \A t \in Askers : doing[t].at = "rest"  BY DEF AssistantInit, Resting
<1>2. DOMAIN doing = Askers  BY DEF AssistantInit
<1> QED  BY <1>1, <1>2 DEF AssistantInit, QueryInv, Querying, Active0

\* An answer comes from the stub or from a model that was active while the
\* query was under way, however many threads load, unload and ask:
\* aura/__init__.py:133-140, model_manager.py:342-383.
THEOREM AnsweredByActiveAlways == AssistantSpec => []AnsweredByActive
<1>1. QueryInv /\ [AssistantNext]_assistantVars => QueryInv'
  BY AssistantStep
<1>2. QueryInv => AnsweredByActive  BY DEF QueryInv, AnsweredByActive
<1> QED  BY QueryInit, <1>1, <1>2, PTL DEF AssistantSpec

-----------------------------------------------------------------------------
\* The conversation.  Questions stand in the window in the order of their
\* numbers, so that one that is pushed out leaves only later ones; and a query
\* that is under way has its question in the window or lost in this way.
Turn == Nat \X {"user", "aura"}
Put(s, q) ==
  \/ \E j \in DOMAIN s : s[j] = <<q, "user">>
  \/ /\ Len(s) = Window
     /\ \A j \in DOMAIN s : s[j][2] = "user" => s[j][1] > q
Follows(s, i) ==
  \/ \E j \in 1..(i - 1) : s[j] = <<s[i][1], "user">>
  \/ /\ Len(s) = Window
     /\ \A j \in DOMAIN s : s[j][2] = "user" => s[j][1] > s[i][1]
Good(s) ==
  /\ s \in Seq(Turn) /\ Len(s) <= Window
  /\ \A i, j \in DOMAIN s :
       i < j /\ s[i][2] = "user" /\ s[j][2] = "user" => s[i][1] < s[j][1]
  /\ \A i \in DOMAIN s : s[i][2] = "aura" => Follows(s, i)
UpTo(s, q) == \A i \in DOMAIN s : s[i][1] <= q

\* The window that an added turn leaves is one longer, or has moved on by one.
Pushed(s, e, w) ==
  /\ w \in Seq(Turn) /\ Len(w) <= Window /\ Len(w) >= 1 /\ w[Len(w)] = e
  /\ \/ Len(w) = Len(s) + 1 /\ \A i \in 1..Len(s) : w[i] = s[i]
     \/ Len(w) = Window /\ Len(s) = Window /\ \A i \in 1..(Window - 1) : w[i] = s[i + 1]

LEMMA PushShape ==
  ASSUME NEW s \in Seq(Turn), Len(s) <= Window, NEW e \in Turn, NEW w, w = LastOf(Append(s, e))
  PROVE  Pushed(s, e, w)
<1>1. Window \in Nat /\ Window >= 1  BY AssistantAssumption
<1>0. PICK a : a = Append(s, e) /\ w = LastOf(a)
  OBVIOUS
<1>2. /\ Len(s) \in Nat /\ a \in Seq(Turn) /\ Len(a) = Len(s) + 1 /\ a[Len(s) + 1] = e
      /\ \A i \in 1..Len(s) : a[i] = s[i]
  BY <1>0
<1>3. CASE Len(s) < Window
  <2>1. ~ (Len(a) > Window)  BY <1>1, <1>2, <1>3
  <2>2. w = SubSeq(a, 1, Len(a))  BY <1>0, <2>1 DEF LastOf
  <2>3. w \in Seq(Turn) /\ Len(w) = Len(a) /\ \A i \in 1..Len(a) : w[i] = a[i]
    BY <1>2, <2>2
  <2> QED  BY <1>1, <1>2, <1>3, <2>3 DEF Pushed
<1>4. CASE Len(s) = Window
  <2>1. Len(a) = Window + 1 /\ Len(a) > Window /\ Len(a) - Window + 1 = 2
    BY <1>1, <1>2, <1>4
  <2>2. w = SubSeq(a, 2, Window + 1)
    BY <1>0, <2>1 DEF LastOf
  <2>3. w \in Seq(Turn) /\ Len(w) = Window /\ \A i \in 1..Window : w[i] = a[i + 1]
    BY <1>1, <1>2, <2>1, <2>2
  <2> QED  BY <1>1, <1>2, <1>4, <2>3 DEF Pushed
<1> QED  BY <1>1, <1>3, <1>4

\* A question that was put stays so, whatever turn is added after it.
LEMMA PutStays ==
  ASSUME NEW s, Good(s), NEW e \in Turn, NEW w, Pushed(s, e, w), NEW q \in Nat,
         Put(s, q), e[2] = "user" => e[1] > q
  PROVE  Put(w, q)
<1>1. /\ s \in Seq(Turn) /\ Len(s) <= Window /\ Window \in Nat /\ Window >= 1
      /\ \A i, j \in DOMAIN s :
            i < j /\ s[i][2] = "user" /\ s[j][2] = "user" => s[i][1] < s[j][1]
  BY AssistantAssumption DEF Good
<1>2. /\ w \in Seq(Turn) /\ Len(w) <= Window /\ Len(w) >= 1 /\ w[Len(w)] = e
      /\ \/ Len(w) = Len(s) + 1 /\ \A i \in 1..Len(s) : w[i] = s[i]
         \/ Len(w) = Window /\ Len(s) = Window /\ \A i \in 1..(Window - 1) : w[i] = s[i + 1]
  BY DEF Pushed
<1>3. CASE Len(w) = Len(s) + 1 /\ \A i \in 1..Len(s) : w[i] = s[i]
  <2>1. PICK j \in DOMAIN s : s[j] = <<q, "user">>
    BY <1>1, <1>2, <1>3 DEF Put
  <2>2. j \in DOMAIN w /\ w[j] = <<q, "user">>  BY <1>1, <1>2, <1>3, <2>1
  <2> QED  BY <2>2 DEF Put
<1>4. CASE Len(w) = Window /\ Len(s) = Window /\ \A i \in 1..(Window - 1) : w[i] = s[i + 1]
  <2>1. ASSUME NEW j \in DOMAIN s, s[j] = <<q, "user">>, j > 1 PROVE Put(w, q)
    <3>1. j - 1 \in 1..(Window - 1) /\ (j - 1) + 1 = j /\ j - 1 \in DOMAIN w
      BY <1>1, <1>2, <1>4, <2>1
    <3>2. w[j - 1] = <<q, "user">>  BY <1>4, <2>1, <3>1
    <3> QED  BY <3>1, <3>2 DEF Put
  <2>2. ASSUME \A i \in DOMAIN s : i > 1 /\ s[i][2] = "user" => s[i][1] > q
        PROVE  Put(w, q)
    <3>1. ASSUME NEW k \in DOMAIN w, w[k][2] = "user" PROVE w[k][1] > q
      <4>1. CASE k = Window  BY <1>2, <1>4, <3>1, <4>1
      <4>2. CASE k # Window
        <5>1. k \in 1..(Window - 1) /\ k + 1 \in DOMAIN s /\ k + 1 > 1
          BY <1>1, <1>2, <1>4, <4>2
        <5>2. w[k] = s[k + 1]  BY <1>4, <5>1
        <5> QED  BY <2>2, <3>1, <5>1, <5>2
      <4> QED  BY <4>1, <4>2
    <3> QED  BY <1>4, <3>1 DEF Put
  <2>3. ASSUME s[1] = <<q, "user">>
        PROVE  \A i \in DOMAIN s : i > 1 /\ s[i][2] = "user" => s[i][1] > q
    <3> SUFFICES ASSUME NEW i \in DOMAIN s, i > 1, s[i][2] = "user" PROVE s[i][1] > q
      OBVIOUS
    <3>1. 1 \in DOMAIN s /\ s[1][1] = q /\ s[1][2] = "user"  BY <1>1, <1>4, <2>3
    <3>2. s[1][1] < s[i][1]  BY <1>1, <3>1
    <3>3. s[i] \in Turn  BY <1>1
    <3>4. s[i][1] \in Nat  BY <3>3 DEF Turn
    <3> QED  BY <3>1, <3>2, <3>4
  <2>4. \/ \E j \in DOMAIN s : s[j] = <<q, "user">> /\ (j > 1 \/ j = 1)
        \/ \A i \in DOMAIN s : s[i][2] = "user" => s[i][1] > q
    BY <1>1 DEF Put
  <2> QED  BY <2>1, <2>2, <2>3, <2>4
<1> QED  BY <1>2, <1>3, <1>4

LEMMA PushKeeps ==
  ASSUME NEW s, Good(s), NEW e \in Turn, NEW w, Pushed(s, e, w),
         e[2] = "user" => \A i \in DOMAIN s : s[i][1] < e[1],
         e[2] = "aura" => Put(s, e[1])
  PROVE  Good(w)
<1>1. /\ s \in Seq(Turn) /\ Len(s) <= Window /\ Window \in Nat /\ Window >= 1
      /\ \A i, j \in DOMAIN s :
            i < j /\ s[i][2] = "user" /\ s[j][2] = "user" => s[i][1] < s[j][1]
  BY AssistantAssumption DEF Good
<1>2. /\ w \in Seq(Turn) /\ Len(w) <= Window /\ Len(w) >= 1 /\ w[Len(w)] = e
      /\ \/ Len(w) = Len(s) + 1 /\ \A i \in 1..Len(s) : w[i] = s[i]
         \/ Len(w) = Window /\ Len(s) = Window /\ \A i \in 1..(Window - 1) : w[i] = s[i + 1]
  BY DEF Pushed
\* Where a turn stood before.
<1> DEFINE old(i) == IF Len(w) = Len(s) + 1 THEN i ELSE i + 1
<1>3. ASSUME NEW i \in DOMAIN w, i # Len(w)
      PROVE  old(i) \in DOMAIN s /\ w[i] = s[old(i)] /\ old(i) >= i
  BY <1>1, <1>2, <1>3
<1>4. \A i, j \in Nat : i < j => old(i) < old(j)
  OBVIOUS
<1>5. \A i \in Nat : old(i) \in Nat
  OBVIOUS
<1> HIDE DEF old
<1>6. ASSUME NEW i \in DOMAIN w, NEW j \in DOMAIN w, i < j, w[i][2] = "user", w[j][2] = "user"
      PROVE  w[i][1] < w[j][1]
  <2>1. i \in Nat /\ j \in Nat /\ i # Len(w)  BY <1>2, <1>6
  <2>2. old(i) \in DOMAIN s /\ w[i] = s[old(i)]  BY <1>3, <2>1
  <2>3. CASE j = Len(w)  BY <1>2, <1>6, <2>2, <2>3
  <2>4. CASE j # Len(w)
    <3>1. old(j) \in DOMAIN s /\ w[j] = s[old(j)] /\ old(i) < old(j)
      BY <1>3, <1>4, <1>6, <2>1, <2>4
    <3> QED  BY <1>1, <1>6, <2>2, <3>1
  <2> QED  BY <2>3, <2>4
<1>7. \A i \in DOMAIN w : w[i] \in Turn /\ w[i][1] \in Nat /\ w[i][2] \in {"user", "aura"}
  <2>1. \A i \in DOMAIN w : w[i] \in Turn  BY <1>2
  <2> QED  BY <2>1 DEF Turn
<1>8. ASSUME NEW i \in DOMAIN w, w[i][2] = "aura", Put(s, w[i][1])
      PROVE  Put(w, w[i][1])
  <2>1. w[i][1] \in Nat  BY <1>7
  <2>2. e[2] = "user" => e[1] > w[i][1]
    <3>1. CASE i = Len(w)  BY <1>2, <1>8, <3>1
    <3>2. CASE i # Len(w)
      <4>1. old(i) \in DOMAIN s /\ w[i] = s[old(i)]  BY <1>3, <3>2
      <4>2. e[1] \in Nat  BY DEF Turn
      <4> QED  BY <2>1, <4>1, <4>2
    <3> QED  BY <3>1, <3>2
  <2> QED  BY <1>8, <2>1, <2>2, PutStays
<1>9. ASSUME NEW i \in DOMAIN w, w[i][2] = "aura"
      PROVE  Follows(w, i)
  <2>1. CASE i = Len(w)
    <3>1. Put(w, w[i][1])  BY <1>2, <1>8, <1>9, <2>1
    <3>2. CASE \E j \in DOMAIN w : w[j] = <<w[i][1], "user">>
      <4>1. PICK j \in DOMAIN w : w[j] = <<w[i][1], "user">>  BY <3>2
      <4>2. j # i  BY <1>9, <4>1
      <4>3. j \in 1..(i - 1)  BY <1>2, <2>1, <4>2
      <4> QED  BY <4>1, <4>3 DEF Follows
    <3> QED  BY <3>1, <3>2 DEF Put, Follows
  <2>2. CASE i # Len(w)
    <3>1. old(i) \in DOMAIN s /\ w[i] = s[old(i)]  BY <1>3, <2>2
    <3>2. Follows(s, old(i))  BY <1>9, <3>1 DEF Good
    <3>3. Put(s, w[i][1])
      <4>1. \A j \in 1..(old(i) - 1) : j \in DOMAIN s  BY <1>1, <3>1
      <4> QED  BY <3>1, <3>2, <4>1 DEF Follows, Put
    <3>4. Put(w, w[i][1])  BY <1>8, <1>9, <3>3
    <3>5. CASE \E j \in DOMAIN w : w[j] = <<w[i][1], "user">>
      <4>1. PICK j \in DOMAIN w : w[j] = <<w[i][1], "user">>  BY <3>5
      <4>2. i \in Nat /\ j \in Nat /\ j # i /\ i <= Len(w) /\ j <= Len(w)
        BY <1>2, <1>9, <4>1
      <4>3. CASE j < i
        <5>1. j \in 1..(i - 1)  BY <1>2, <4>2, <4>3
        <5> QED  BY <4>1, <5>1 DEF Follows
      <4>4. CASE j > i
        <5>1. CASE \E k \in 1..(old(i) - 1) : s[k] = <<w[i][1], "user">>
          <6>1. PICK k \in 1..(old(i) - 1) : s[k] = <<w[i][1], "user">>
            BY <5>1
          <6>2. k \in DOMAIN s /\ k < old(i) /\ s[k][1] = w[i][1] /\ s[k][2] = "user"
            BY <1>1, <3>1, <6>1
          <6>3. w[j][1] = w[i][1] /\ w[j][2] = "user"  BY <4>1
          <6>4. CASE j = Len(w)
            BY <1>2, <1>7, <6>2, <6>3, <6>4
          <6>5. CASE j # Len(w)
            <7>1. old(j) \in DOMAIN s /\ w[j] = s[old(j)] /\ old(i) < old(j)
              BY <1>3, <1>4, <4>2, <4>4, <6>5
            <7>2. k < old(j)  
              <8>1. old(i) \in Nat /\ old(j) \in Nat /\ k \in Nat  BY <1>1, <1>5, <4>2, <6>2
              <8> QED  BY <6>2, <7>1, <8>1
            <7>3. s[k][1] < s[old(j)][1]  BY <1>1, <6>2, <6>3, <7>1, <7>2
            <7> QED  BY <1>7, <6>2, <6>3, <7>1, <7>3
          <6> QED  BY <6>4, <6>5
        <5>2. CASE \A k \in DOMAIN s : s[k][2] = "user" => s[k][1] > w[i][1]
          <6>1. w[j][1] = w[i][1] /\ w[j][2] = "user"  BY <4>1
          <6>2. CASE j = Len(w)
            <7>1. s[old(i)][1] < w[j][1]  BY <1>2, <3>1, <6>1, <6>2
            <7> QED  BY <1>7, <3>1, <6>1, <7>1
          <6>3. CASE j # Len(w)
            <7>1. old(j) \in DOMAIN s /\ w[j] = s[old(j)]  BY <1>3, <6>3
            <7> QED  BY <1>7, <5>2, <6>1, <7>1
          <6> QED  BY <6>2, <6>3
        <5> QED  BY <3>1, <3>2, <5>1, <5>2 DEF Follows
      <4> QED  BY <4>2, <4>3, <4>4
    <3> QED  BY <3>4, <3>5 DEF Put, Follows
  <2> QED  BY <2>1, <2>2
<1> QED  BY <1>2, <1>6, <1>9 DEF Good

\* What is in the window, in the file, and in the hands of a thread that saves
\* is a good conversation of queries that there were.
Kept(s) == Good(s) /\ UpTo(s, queries)
TalkInv ==
  /\ queries \in Nat /\ DOMAIN doing = Askers
  /\ Kept(turns) /\ (kept = Torn \/ Kept(kept))
  /\ \A t \in Askers :
       /\ Querying(t) => doing[t].id \in 1..queries /\ Put(turns, doing[t].id)
       /\ doing[t].at = "save" => Kept(doing[t].what)

\* A thread that moves and leaves the window as it is.
LEMMA TalkMoves ==
  ASSUME TalkInv, NEW t \in Askers, NEW d, doing' = [doing EXCEPT ![t] = d],
         UNCHANGED <<turns, queries>>, kept' \in {kept, Torn} \/ Kept(kept'),
         d.at \in {"asked", "infer", "inferring"} => Querying(t) /\ d.id = doing[t].id,
         d.at = "save" => Kept(d.what)
  PROVE  TalkInv'
<1>1. DOMAIN doing' = Askers /\ doing'[t] = d /\ \A u \in Askers : u # t => doing'[u] = doing[u]
  BY DEF TalkInv
<1> QED  BY <1>1 DEF TalkInv, Querying, Kept

\* The model changes: nothing that is said or saved does.
LEMMA TalkActivates ==
  ASSUME QueryInv, TalkInv, NEW name, NEW made, NEW others, Activates(name, made, others),
         DOMAIN others = Askers,
         \A u \in Askers : others[u] = doing[u] \/ (~ Querying(u) /\ others[u] = Resting),
         UNCHANGED <<turns, kept, queries>>
  PROVE  TalkInv'
<1>1. doing' = [t \in Askers |->
         IF Querying(t) THEN [others[t] EXCEPT !.met = @ \cup {name}] ELSE others[t]]
  BY DEF Activates
<1>2. ASSUME NEW t \in Askers
      PROVE  \/ doing'[t] = Resting
             \/ doing'[t].at = doing[t].at /\ (Querying(t) => doing'[t].id = doing[t].id)
                /\ (doing[t].at = "save" => doing'[t].what = doing[t].what)
  <2>1. CASE Querying(t)
    <3>1. doing'[t] = [doing[t] EXCEPT !.met = @ \cup {name}]  BY <1>1, <2>1
    <3>2. doing[t] \in Query  BY <2>1 DEF QueryInv
    <3>3. doing'[t].at = doing[t].at /\ doing'[t].id = doing[t].id  BY <3>1, <3>2 DEF Query
    <3> QED  BY <2>1, <3>3 DEF Querying
  <2>2. CASE ~ Querying(t)
    BY <1>1, <2>2
  <2> QED  BY <2>1, <2>2
<1>3. Resting.at = "rest"  BY DEF Resting
<1>4. DOMAIN doing' = Askers  BY <1>1
<1> QED  BY <1>2, <1>3, <1>4 DEF TalkInv, Querying, Kept

\* A turn is added, by the thread whose query it belongs to.
LEMMA TalkGrows ==
  ASSUME TalkInv, NEW t \in Askers, NEW d, doing' = [doing EXCEPT ![t] = d], kept' = kept,
         NEW n \in Nat, NEW who \in {"user", "aura"}, turns' = LastOf(Append(turns, <<n, who>>)),
         \/ who = "user" /\ n = queries + 1 /\ queries' = n /\ d.at = "asked" /\ d.id = n
         \/ who = "aura" /\ queries' = queries /\ d.at = "rest" /\ n <= queries /\ Put(turns, n)
  PROVE  TalkInv'
<1> DEFINE e == <<n, who>>
<1>1. e \in Turn /\ e[1] = n /\ e[2] = who  BY DEF Turn
<1>2. turns' = LastOf(Append(turns, e))  OBVIOUS
<1> HIDE DEF e
<1>3. /\ turns \in Seq(Turn) /\ Len(turns) <= Window /\ Good(turns) /\ queries \in Nat
      /\ \A i \in DOMAIN turns : turns[i][1] <= queries
  BY DEF TalkInv, Kept, UpTo, Good
<1>4. queries' \in Nat /\ queries <= queries' /\ n <= queries'  BY <1>3
<1>5. Pushed(turns, e, turns')  BY <1>1, <1>2, <1>3, PushShape
<1>6. \A i \in DOMAIN turns : turns[i][1] \in Nat
  <2>1. \A i \in DOMAIN turns : turns[i] \in Turn  BY <1>3
  <2> QED  BY <2>1 DEF Turn
<1>7. Good(turns')  BY <1>1, <1>3, <1>5, <1>6, PushKeeps
<1>8. UpTo(turns', queries')
  <2>1. \A i \in DOMAIN turns' : turns'[i] = e \/ \E j \in DOMAIN turns : turns'[i] = turns[j]
    <3> SUFFICES ASSUME NEW i \in DOMAIN turns'
                 PROVE  turns'[i] = e \/ \E j \in DOMAIN turns : turns'[i] = turns[j]
      OBVIOUS
    <3>1. /\ turns' \in Seq(Turn) /\ Len(turns') <= Window /\ turns'[Len(turns')] = e
          /\ i \in 1..Len(turns') /\ Window \in Nat
      BY <1>5, AssistantAssumption DEF Pushed
    <3>2. CASE i = Len(turns')  BY <3>1, <3>2
    <3>3. CASE i # Len(turns') /\ Len(turns') = Len(turns) + 1
               /\ \A k \in 1..Len(turns) : turns'[k] = turns[k]
      <4>1. i \in 1..Len(turns) /\ i \in DOMAIN turns  BY <1>3, <3>1, <3>3
      <4>2. turns'[i] = turns[i]  BY <3>3, <4>1
      <4> QED  BY <4>1, <4>2
    <3>4. CASE i # Len(turns') /\ Len(turns') = Window /\ Len(turns) = Window
               /\ \A k \in 1..(Window - 1) : turns'[k] = turns[k + 1]
      <4>1. i \in 1..(Window - 1) /\ i + 1 \in DOMAIN turns  BY <1>3, <3>1, <3>4
      <4> QED  BY <3>4, <4>1
    <3> QED  BY <1>5, <3>2, <3>3, <3>4 DEF Pushed
  <2> QED  BY <1>1, <1>3, <1>4, <1>6, <2>1 DEF UpTo
<1>9. \A q \in Nat : Put(turns, q) /\ q <= queries => Put(turns', q)
  BY <1>1, <1>3, <1>5, PutStays
<1>10. who = "user" => Put(turns', n)
  <2>1. Len(turns') \in DOMAIN turns' /\ turns'[Len(turns')] = <<n, who>>
    <3>1. turns' \in Seq(Turn) /\ Len(turns') > 0 /\ turns'[Len(turns')] = e
      BY <1>5 DEF Pushed
    <3>2. Len(turns') \in Nat /\ DOMAIN turns' = 1..Len(turns')  BY <3>1
    <3>3. Len(turns') \in 1..Len(turns')  BY <3>1, <3>2
    <3> QED  BY <3>1, <3>2, <3>3 DEF e
  <2> QED  BY <2>1 DEF Put
<1>11. DOMAIN doing' = Askers /\ doing'[t] = d /\ \A u \in Askers : u # t => doing'[u] = doing[u]
  BY DEF TalkInv
<1>12. \A s : Kept(s) => Kept(s)'
  <2> SUFFICES ASSUME NEW s, Kept(s) PROVE UpTo(s, queries')
    BY DEF Kept
  <2>1. \A i \in DOMAIN s : s[i] \in Turn  BY DEF Kept, Good
  <2>2. \A i \in DOMAIN s : s[i][1] \in Nat  BY <2>1 DEF Turn
  <2> QED  BY <1>3, <1>4, <2>2 DEF Kept, UpTo
<1>13. ASSUME NEW u \in Askers
       PROVE  /\ Querying(u)' => doing'[u].id \in 1..queries' /\ Put(turns', doing'[u].id)
              /\ doing'[u].at = "save" => Good(doing'[u].what) /\ UpTo(doing'[u].what, queries')
  <2>1. CASE u = t
    BY <1>3, <1>10, <1>11, <2>1 DEF Querying
  <2>2. CASE u # t
    <3>1. doing'[u] = doing[u]  BY <1>11, <2>2
    <3>2. Querying(u) => doing[u].id \in 1..queries /\ Put(turns, doing[u].id)  BY DEF TalkInv
    <3>3. doing[u].at = "save" => Kept(doing[u].what)  BY DEF TalkInv
    <3> QED  BY <1>3, <1>4, <1>9, <1>12, <3>1, <3>2, <3>3 DEF Querying, Kept
  <2> QED  BY <2>1, <2>2
<1>14. kept' = Torn \/ Kept(kept)'
  BY <1>12 DEF TalkInv
<1> QED  BY <1>4, <1>7, <1>8, <1>11, <1>13, <1>14 DEF TalkInv, Kept, Querying

\* A conversation that was saved fits the window.
LEMMA LoadedIsGood ==
  ASSUME NEW s, Good(s)
  PROVE  LastOf(s) = s
<1>1. s \in Seq(Turn) /\ Len(s) \in Nat /\ ~ (Len(s) > Window)
  BY AssistantAssumption DEF Good
<1>2. LastOf(s) = SubSeq(s, 1, Len(s))  BY <1>1 DEF LastOf
<1> QED  BY <1>1, <1>2

LEMMA NothingIsGood == Good(<<>>) /\ \A q : UpTo(<<>>, q)
<1>1. <<>> \in Seq(Turn) /\ Len(<<>>) = 0 /\ DOMAIN <<>> = {}  OBVIOUS
<1> QED  BY <1>1, AssistantAssumption DEF Good, UpTo

LEMMA TalkStep ==
  ASSUME QueryInv, TalkInv, AssistantNext \/ UNCHANGED assistantVars
  PROVE  TalkInv'
<1>0. Resting.at = "rest"  BY DEF Resting
<1>1. CASE UNCHANGED <<doing, turns, kept, queries>>
  BY <1>1 DEF TalkInv, Querying, Kept
<1>2. CASE Reboot
  <2>1. /\ turns' = IF kept = Torn THEN <<>> ELSE LastOf(kept)
        /\ doing' = [t \in Askers |-> Resting] /\ UNCHANGED <<kept, queries>>
    BY <1>2 DEF Reboot, LoadMemory
  <2>2. Good(turns') /\ UpTo(turns', queries)
    <3>1. CASE kept = Torn  BY <2>1, <3>1, NothingIsGood
    <3>2. CASE kept # Torn
      <4>1. Kept(kept)  BY <3>2 DEF TalkInv
      <4>2. turns' = kept  BY <2>1, <3>2, <4>1, LoadedIsGood DEF Kept
      <4> QED  BY <4>1, <4>2 DEF Kept
    <3> QED  BY <3>1, <3>2
  <2>3. DOMAIN doing' = Askers /\ \A t \in Askers : doing'[t].at = "rest"
    BY <1>0, <2>1
  <2> QED  BY <2>1, <2>2, <2>3 DEF TalkInv, Kept, Querying
<1>3. ASSUME NEW t \in Askers, NEW m \in Models, LoadLooks(t, m) PROVE TalkInv'
  <2> DEFINE d == [at |-> "load", of |-> m]
  <2>1. doing' = [doing EXCEPT ![t] = d] /\ UNCHANGED <<turns, kept, queries>> /\ d.at = "load"
    BY <1>3 DEF LoadLooks
  <2> HIDE DEF d
  <2> QED  BY <2>1, TalkMoves
<1>4. ASSUME NEW t \in Askers, LoadSets(t) PROVE TalkInv'
  <2> DEFINE others == [doing EXCEPT ![t] = Resting]
  <2>1. PICK made : Activates(doing[t].of, made, others)
    BY <1>4 DEF LoadSets
  <2>2. DOMAIN others = Askers /\ UNCHANGED <<turns, kept, queries>>
        /\ \A u \in Askers : others[u] = doing[u] \/ (~ Querying(u) /\ others[u] = Resting)
    BY <1>4 DEF LoadSets, TalkInv, Querying
  <2> HIDE DEF others
  <2> QED  BY <2>1, <2>2, TalkActivates
<1>5. ASSUME NEW t \in Askers, Unload(t) \/ LoadOllama(t) \/ LoadOpenAI(t) PROVE TalkInv'
  <2>1. PICK name, made : Activates(name, made, doing)
    BY <1>5 DEF Unload, LoadOllama, LoadOpenAI
  <2>2. UNCHANGED <<turns, kept, queries>> /\ DOMAIN doing = Askers
    BY <1>5 DEF Unload, LoadOllama, LoadOpenAI, TalkInv
  <2> QED  BY <2>1, <2>2, TalkActivates
<1>6. ASSUME NEW t \in Askers, QueryBegins(t) PROVE TalkInv'
  <2> DEFINE d == [at |-> "asked", id |-> queries + 1, met |-> {active}]
  <2>1. /\ doing' = [doing EXCEPT ![t] = d] /\ d.at = "asked" /\ d.id = queries + 1
        /\ turns' = LastOf(Append(turns, <<queries + 1, "user">>))
        /\ queries' = queries + 1 /\ kept' = kept
    BY <1>6 DEF QueryBegins
  <2>2. queries + 1 \in Nat  BY DEF TalkInv
  <2> HIDE DEF d
  <2> QED  BY <2>1, <2>2, TalkGrows
<1>7. ASSUME NEW t \in Askers, Querying(t), Answers(t) PROVE TalkInv'
  <2>1. doing[t].id \in 1..queries /\ Put(turns, doing[t].id) /\ queries \in Nat
    BY <1>7 DEF TalkInv
  <2>2. /\ doing' = [doing EXCEPT ![t] = Resting] /\ UNCHANGED <<kept, queries>>
        /\ turns' = LastOf(Append(turns, <<doing[t].id, "aura">>))
    BY <1>7 DEF Answers
  <2>3. PICK n \in Nat : n = doing[t].id /\ n <= queries  BY <2>1
  <2> QED  BY <1>0, <2>1, <2>2, <2>3, TalkGrows
<1>8. ASSUME NEW t \in Askers, InferRaises(t) \/ SaveWrites(t) PROVE TalkInv'
  <2>1. doing' = [doing EXCEPT ![t] = Resting] /\ UNCHANGED <<turns, queries>>
    BY <1>8 DEF InferRaises, SaveWrites
  <2>2. kept' = kept \/ Kept(kept')
    BY <1>8 DEF InferRaises, SaveWrites, TalkInv
  <2> QED  BY <1>0, <2>1, <2>2, TalkMoves
<1>9. ASSUME NEW t \in Askers, doing[t].at = "asked", doing' = [doing EXCEPT ![t].at = "infer"],
             UNCHANGED <<turns, kept, queries>>
      PROVE  TalkInv'
  <2> DEFINE d == [doing[t] EXCEPT !.at = "infer"]
  <2>1. doing[t] \in Query /\ Querying(t)  BY <1>9 DEF QueryInv, Querying
  <2>2. d.at = "infer" /\ d.id = doing[t].id  BY <2>1 DEF Query
  <2>3. doing' = [doing EXCEPT ![t] = d]  BY <1>9
  <2> HIDE DEF d
  <2> QED  BY <1>9, <2>1, <2>2, <2>3, TalkMoves
<1>10. ASSUME NEW t \in Askers, InferTakes(t) PROVE TalkInv'
  <2> DEFINE d == [at |-> "inferring", id |-> doing[t].id, met |-> doing[t].met, by |-> engine]
  <2>1. doing' = [doing EXCEPT ![t] = d] /\ UNCHANGED <<turns, kept, queries>>
        /\ d.at = "inferring" /\ d.id = doing[t].id /\ Querying(t)
    BY <1>10 DEF InferTakes, Querying
  <2> HIDE DEF d
  <2> QED  BY <2>1, TalkMoves
<1>11. ASSUME NEW t \in Askers, SaveOpens(t) PROVE TalkInv'
  <2> DEFINE d == [at |-> "save", what |-> turns]
  <2>1. doing' = [doing EXCEPT ![t] = d] /\ UNCHANGED <<turns, queries>> /\ kept' = Torn
        /\ d.at = "save" /\ d.what = turns
    BY <1>11 DEF SaveOpens
  <2>2. Kept(turns)  BY DEF TalkInv
  <2> HIDE DEF d
  <2> QED  BY <2>1, <2>2, TalkMoves
<1>12. ASSUME UNCHANGED assistantVars \/ ScanModels \/ (\E m \in Models : RegisterModel(m))
       PROVE  UNCHANGED <<doing, turns, kept, queries>>
  BY <1>12 DEF assistantVars, ScanModels, RegisterModel
<1>13. ASSUME NEW t \in Askers, QueryLooks(t) \/ InferAnswers(t) PROVE TalkInv'
  BY <1>7, <1>9, <1>13 DEF QueryLooks, InferAnswers, Querying
<1> QED
  BY <1>1, <1>2, <1>3, <1>4, <1>5, <1>6, <1>8, <1>10, <1>11, <1>12, <1>13
  DEF AssistantNext, ModelCommand

\* In the window every answer comes after its question or has outlived it,
\* for windows of every length and any number of threads that ask, save and
\* are cut off: aura/__init__.py:129-143, memory.py:62-72, 132-192.
THEOREM AnswersFollowQuestionsAlways == AssistantSpec => []AnswersFollowQuestions
<1>1. AssistantInit => QueryInv /\ TalkInv
  <2> SUFFICES ASSUME AssistantInit PROVE TalkInv
    BY QueryInit
  <2>1. DOMAIN doing = Askers /\ \A t \in Askers : doing[t].at = "rest"
    BY DEF AssistantInit, Resting
  <2> QED  BY <2>1, NothingIsGood DEF AssistantInit, TalkInv, Kept, Querying
<1>2. QueryInv /\ TalkInv /\ [AssistantNext]_assistantVars => (QueryInv /\ TalkInv)'
  BY AssistantStep, TalkStep
<1>3. TalkInv => AnswersFollowQuestions
  BY DEF TalkInv, Kept, Good, Follows, AnswersFollowQuestions
<1> QED  BY <1>1, <1>2, <1>3, PTL DEF AssistantSpec

-----------------------------------------------------------------------------
\* The package manager.  Until a save is spoilt at most one client saves at a
\* time; what it saves is the registry, unless somebody is yet to take a
\* newer one; and where nobody does either the file has it.
PackageCall == {NotCalling} \cup [at : {"save"}]
               \cup [at : {"open", "write"}, what : SUBSET Packages]
NobodyToSave == \A c \in Clients : call[c].at # "save"

FileInv ==
  /\ packages \subseteq Packages /\ call \in [Clients -> PackageCall]
  /\ file = CutShort \/ file \subseteq Packages
  /\ ~ spoilt =>
       /\ \A c, d \in Clients : Saving(c) /\ Saving(d) => c = d
       /\ NobodyToSave => \A c \in Clients : Saving(c) => call[c].what = packages
       /\ (\A c \in Clients : call[c] = NotCalling) => file = packages

LEMMA CallCases ==
  ASSUME FileInv, NEW c \in Clients
  PROVE  /\ call[c].at \in {"away", "save", "open", "write"}
         /\ call[c].at = "away" <=> call[c] = NotCalling
         /\ Saving(c) => call[c] \in [at : {"open", "write"}, what : SUBSET Packages]
BY DEF FileInv, PackageCall, NotCalling, Saving

LEMMA TakesKeeps ==
  ASSUME FileInv, NEW c \in Clients, SaveTakes(c)
  PROVE  FileInv'
<1> DEFINE taken == [at |-> "open", what |-> packages]
<1>1. /\ call' = [call EXCEPT ![c] = taken] /\ UNCHANGED <<packages, file>>
      /\ spoilt' = \E d \in Clients : d # c /\ Saving(d)
  BY DEF SaveTakes
<1>2. taken \in PackageCall /\ taken.at = "open" /\ taken.what = packages /\ taken # NotCalling
  BY DEF PackageCall, FileInv, NotCalling
<1> HIDE DEF taken
<1>3. call'[c] = taken /\ \A d \in Clients : d # c => call'[d] = call[d]
  BY <1>1 DEF FileInv
<1>4. call' \in [Clients -> PackageCall]  BY <1>1, <1>2 DEF FileInv
<1>5. ~ spoilt' => \A d \in Clients : Saving(d)' => d = c
  BY <1>1, <1>3 DEF Saving
<1> QED  BY <1>1, <1>2, <1>3, <1>4, <1>5 DEF FileInv

LEMMA OpensKeeps ==
  ASSUME FileInv, NEW c \in Clients, SaveOpensFile(c)
  PROVE  FileInv'
<1>1. call[c].at = "open" /\ packages' = packages /\ Saving(c)
  BY DEF SaveOpensFile, Saving
<1>2. CASE call' = [call EXCEPT ![c].at = "write"] /\ file' = CutShort /\ spoilt' = spoilt
  <2> DEFINE opened == [call[c] EXCEPT !.at = "write"]
  <2>1. call[c] \in [at : {"open", "write"}, what : SUBSET Packages]  BY <1>1, CallCases
  <2>2. opened \in PackageCall /\ opened.at = "write" /\ opened.what = call[c].what
    BY <2>1 DEF PackageCall
  <2>3. call' = [call EXCEPT ![c] = opened]  BY <1>2
  <2> HIDE DEF opened
  <2>4. call' \in [Clients -> PackageCall] /\ call'[c] = opened
        /\ \A d \in Clients : d # c => call'[d] = call[d]
    BY <2>2, <2>3 DEF FileInv
  <2>5. \A d \in Clients : (Saving(d)' <=> Saving(d)) /\ (Saving(d) => call'[d].what = call[d].what)
    BY <1>1, <2>2, <2>4 DEF Saving
  <2>6. NobodyToSave' => NobodyToSave  BY <1>1, <2>4 DEF NobodyToSave
  <2>7. call'[c] # NotCalling  BY <2>2, <2>4 DEF NotCalling
  <2> QED  BY <1>1, <1>2, <2>4, <2>5, <2>6, <2>7 DEF FileInv
<1>3. CASE call' = [call EXCEPT ![c] = NotCalling] /\ spoilt' = TRUE /\ file' = file
  BY <1>1, <1>3 DEF FileInv, PackageCall
<1> QED  BY <1>2, <1>3 DEF SaveOpensFile

LEMMA WritesKeeps ==
  ASSUME FileInv, NEW c \in Clients, SaveWritesFile(c)
  PROVE  FileInv'
<1>1. /\ call' = [call EXCEPT ![c] = NotCalling] /\ UNCHANGED <<packages, spoilt>> /\ Saving(c)
  BY DEF SaveWritesFile, Saving
<1>2. call' \in [Clients -> PackageCall] /\ call'[c] = NotCalling
      /\ \A d \in Clients : d # c => call'[d] = call[d]
  BY <1>1 DEF FileInv, PackageCall
<1>3. call[c] \in [at : {"open", "write"}, what : SUBSET Packages]  BY <1>1, CallCases
<1>4. file' = call[c].what \/ (file' = CutShort /\ \E d \in Clients : d # c /\ Saving(d))
  BY DEF SaveWritesFile, Saving
<1>5. ASSUME ~ spoilt'
      PROVE  /\ \A d \in Clients : ~ Saving(d)'
             /\ (\A d \in Clients : call'[d] = NotCalling) => file' = packages
  <2>1. \A d \in Clients : Saving(d) => d = c  BY <1>1, <1>5 DEF FileInv
  <2>2. NotCalling.at = "away"  BY DEF NotCalling
  <2>3. \A d \in Clients : ~ Saving(d)'  BY <1>2, <2>1, <2>2 DEF Saving
  <2>4. file' = call[c].what  BY <1>4, <2>1
  <2>5. (\A d \in Clients : call'[d] = NotCalling) => NobodyToSave
    BY <1>1, <1>2, <2>2 DEF NobodyToSave, Saving
  <2> QED  BY <1>1, <1>5, <2>3, <2>4, <2>5 DEF FileInv
<1> QED  BY <1>1, <1>2, <1>3, <1>4, <1>5 DEF FileInv

LEMMA PackageStep ==
  ASSUME FileInv, PackageNext \/ UNCHANGED packageVars
  PROVE  FileInv'
<1>1. ASSUME NEW c \in Clients, NEW p \in Packages, Install(c, p) \/ Uninstall(c, p)
      PROVE  FileInv'
  <2> DEFINE s == [at |-> "save"]
  <2>1. /\ call[c] = NotCalling /\ call' = [call EXCEPT ![c] = s] /\ UNCHANGED <<file, spoilt>>
        /\ packages' \subseteq Packages
    BY <1>1 DEF Install, Uninstall, FileInv
  <2>2. s \in PackageCall /\ s.at = "save" /\ s # NotCalling  BY DEF PackageCall, NotCalling
  <2> HIDE DEF s
  <2>3. /\ call' \in [Clients -> PackageCall] /\ call'[c] = s
        /\ \A d \in Clients : d # c => call'[d] = call[d]
    BY <2>1, <2>2 DEF FileInv
  <2>4. \A d \in Clients : Saving(d)' => Saving(d)  BY <2>2, <2>3 DEF Saving
  <2>5. ~ NobodyToSave'  BY <2>2, <2>3 DEF NobodyToSave
  <2> QED  BY <2>1, <2>2, <2>3, <2>4, <2>5 DEF FileInv
<1>2. CASE PackagesReload
  <2>1. \A c \in Clients : call'[c] = NotCalling  BY <1>2 DEF PackagesReload
  <2>2. NotCalling.at = "away"  BY DEF NotCalling
  <2>3. \A c \in Clients : ~ Saving(c)'  BY <2>1, <2>2 DEF Saving
  <2>4. call' \in [Clients -> PackageCall]  BY <1>2 DEF PackagesReload, PackageCall
  <2> QED  BY <1>2, <2>3, <2>4 DEF PackagesReload, FileInv
<1>3. CASE UNCHANGED packageVars
  BY <1>3 DEF packageVars, FileInv, NobodyToSave, Saving
<1> QED  BY <1>1, <1>2, <1>3, TakesKeeps, OpensKeeps, WritesKeeps DEF PackageNext

\* When no command is under way packages.json lists what the registry holds,
\* for any number of clients, unless the last save failed or met another:
\* package_manager.py:120-126, 154-156, 215-225.
THEOREM FileFollowsRegistryAlways == PackageSpec => []FileFollowsRegistry
<1>1. PackageInit => FileInv
  <2> SUFFICES ASSUME PackageInit PROVE FileInv
    OBVIOUS
  <2>1. NotCalling.at = "away"  BY DEF NotCalling
  <2>2. \A c \in Clients : ~ Saving(c)  BY <2>1 DEF PackageInit, Saving
  <2> QED  BY <2>2 DEF PackageInit, FileInv, PackageCall
<1>2. FileInv /\ [PackageNext]_packageVars => FileInv'  BY PackageStep
<1>3. FileInv => FileFollowsRegistry  BY DEF FileInv, FileFollowsRegistry
<1> QED  BY <1>1, <1>2, <1>3, PTL DEF PackageSpec

-----------------------------------------------------------------------------
\* The mesh.  Every record of a node that is dead, and of which nothing came up
\* since, is at least as old as the silence, less the unit in which that began.
DownInv ==
  /\ age \in [Nodes -> [Nodes -> Nat]] /\ silent \in [Nodes -> [Nodes -> 0..Unknown]]
  /\ DOMAIN coordinator = Nodes /\ down \subseteq Nodes
  /\ \A n, c \in Nodes : silent[n][c] > 0 => age[n][c] + 1 >= silent[n][c]
  /\ \A n, c \in Nodes : n = c \/ Alive(c) => silent[n][c] = 0

LEMMA LeastIsOne ==
  ASSUME NEW S \in SUBSET Nat, S # {}
  PROVE  Least(S) \in S
<1>1. PICK x \in S : \A y \in S : ~ (<<y, x>> \in OpToRel(<, Nat))
  BY WFMin, NatLessThanWellFounded
<1>2. \A y \in S : y \in Nat /\ ~ (y < x)  BY <1>1, Zenon DEF OpToRel
<1>3. \A y \in S : x <= y  BY <1>2
<1> QED  BY <1>3 DEF Least

\* A record is made new only for a node that lives, or whose silence ends there.
LEMMA RefreshKeeps ==
  ASSUME DownInv, NEW n \in Nodes, NEW p \in Nodes, NEW heard \in BOOLEAN,
         Refresh(n, p, heard), heard => silent'[n][p] <= 1,
         silent' = silent \/ (silent' = [silent EXCEPT ![n][p] = 1] /\ n # p /\ ~ Alive(p)),
         UNCHANGED <<coordinator, down>>
  PROVE  DownInv'
<1>1. StaleAfter \in Nat /\ Unknown = StaleAfter + 2
  BY MeshAssumption DEF Unknown
<1>2. /\ age' \in [Nodes -> [Nodes -> Nat]]
      /\ \A m, c \in Nodes : age'[m][c] = IF heard /\ m = n /\ c = p THEN 0 ELSE age[m][c]
  BY DEF Refresh, DownInv
<1>3. /\ silent' \in [Nodes -> [Nodes -> 0..Unknown]]
      /\ \A m, c \in Nodes : \/ silent'[m][c] = silent[m][c]
                             \/ m = n /\ c = p /\ silent'[m][c] = 1 /\ n # p /\ ~ Alive(p)
  <2>1. 1 \in 0..Unknown /\ silent \in [Nodes -> [Nodes -> 0..Unknown]]
    BY <1>1 DEF DownInv
  <2>2. CASE silent' = silent
    BY <2>1, <2>2
  <2>3. CASE silent' = [silent EXCEPT ![n][p] = 1] /\ n # p /\ ~ Alive(p)
    BY <2>1, <2>3
  <2> QED  BY <2>2, <2>3
<1>4. ASSUME NEW m \in Nodes, NEW c \in Nodes, silent'[m][c] > 0
      PROVE  age'[m][c] + 1 >= silent'[m][c]
  <2>1. age'[m][c] \in Nat /\ age[m][c] \in Nat /\ silent'[m][c] \in 0..Unknown
    BY <1>2, <1>3 DEF DownInv
  <2>2. CASE heard /\ m = n /\ c = p
    BY <1>1, <2>1, <2>2
  <2>3. CASE silent'[m][c] = 1
    BY <1>1, <2>1, <2>3
  <2>4. CASE ~ (heard /\ m = n /\ c = p) /\ silent'[m][c] = silent[m][c]
    BY <1>2, <1>4, <2>4 DEF DownInv
  <2> QED  BY <1>3, <2>2, <2>3, <2>4
<1>5. \A m, c \in Nodes : m = c \/ c \notin down' => silent'[m][c] = 0
  BY <1>3 DEF DownInv, Alive
<1> QED  BY <1>2, <1>3, <1>4, <1>5 DEF DownInv, Alive

LEMMA TimeKeeps ==
  ASSUME DownInv, TimePasses
  PROVE  DownInv'
<1>1. StaleAfter \in Nat /\ Unknown = StaleAfter + 2
  BY MeshAssumption DEF Unknown
<1>2. /\ age' = [n \in Nodes |-> [p \in Nodes |-> Older(age[n][p])]]
      /\ silent' = [n \in Nodes |-> [p \in Nodes |-> Longer(silent[n][p])]]
      /\ down' = down /\ coordinator' = coordinator
  BY DEF TimePasses
<1>3. \A a \in Nat : Older(a) \in Nat /\ Older(a) >= a /\ (a <= StaleAfter => Older(a) = a + 1)
  BY <1>1 DEF Older
<1>4. \A d \in 0..Unknown : /\ Longer(d) \in 0..Unknown /\ (d = 0 => Longer(d) = 0)
                            /\ d > 0 => Longer(d) = IF d < Unknown THEN d + 1 ELSE d
  BY <1>1 DEF Longer
<1>5. age' \in [Nodes -> [Nodes -> Nat]]  BY <1>2, <1>3 DEF DownInv
<1>6. silent' \in [Nodes -> [Nodes -> 0..Unknown]]  BY <1>2, <1>4 DEF DownInv
<1>7. ASSUME NEW n \in Nodes, NEW c \in Nodes, silent'[n][c] > 0
      PROVE  age'[n][c] + 1 >= silent'[n][c]
  <2>1. /\ age[n][c] \in Nat /\ silent[n][c] \in 0..Unknown
        /\ age'[n][c] = Older(age[n][c]) /\ silent'[n][c] = Longer(silent[n][c])
    BY <1>2 DEF DownInv
  <2>2. silent[n][c] > 0 /\ age[n][c] + 1 >= silent[n][c]
    BY <1>4, <1>7, <2>1 DEF DownInv
  <2>3. silent'[n][c] = IF silent[n][c] < Unknown THEN silent[n][c] + 1 ELSE silent[n][c]
    BY <1>4, <2>1, <2>2
  <2>4. CASE age[n][c] <= StaleAfter
    BY <1>1, <1>3, <2>1, <2>2, <2>3, <2>4
  <2>5. CASE age[n][c] > StaleAfter
    BY <1>1, <1>3, <2>1, <2>2, <2>3, <2>5
  <2> QED  BY <1>1, <2>1, <2>4, <2>5
<1>8. \A m, c \in Nodes : m = c \/ c \notin down' => silent'[m][c] = 0
  BY <1>2, <1>4 DEF DownInv, Alive
<1> QED  BY <1>2, <1>5, <1>6, <1>7, <1>8 DEF DownInv, Alive

MeshInv == DownInv /\ CrashedDeposed

LEMMA EndsKeeps ==
  ASSUME MeshInv, NEW n \in Nodes, NEW s, SyncEnds(n, s)
  PROVE  MeshInv'
<1> DEFINE lead == Least({n} \cup Active(n))
<1>1. /\ coordinator' = [coordinator EXCEPT ![n] = lead] /\ UNCHANGED <<age, down, silent>>
      /\ elected' \subseteq elected \cup {n}
  BY DEF SyncEnds, lifeVars
<1>2. lead \in {n} \cup Active(n)
  BY LeastIsOne, MeshAssumption DEF Active
<1> HIDE DEF lead
<1>3. DownInv'  BY <1>1 DEF MeshInv, DownInv, Alive
<1>4. ASSUME NEW m \in Nodes, NEW c \in Nodes, m \in elected', m \notin down, silent[m][c] = Unknown
      PROVE  coordinator'[m] # c
  <2>1. CASE m # n
    BY <1>1, <1>4, <2>1 DEF MeshInv, CrashedDeposed, Alive, DownInv
  <2>2. CASE m = n
    <3>1. StaleAfter \in Nat /\ Unknown = StaleAfter + 2  BY MeshAssumption DEF Unknown
    <3>2. c # n  BY <1>4, <2>2, <3>1 DEF MeshInv, DownInv
    <3>3. age[n][c] \in Nat /\ age[n][c] > StaleAfter
      <4>1. age[n][c] \in Nat /\ (silent[n][c] > 0 => age[n][c] + 1 >= silent[n][c])
        BY DEF MeshInv, DownInv
      <4> QED  BY <1>4, <2>2, <3>1, <4>1
    <3>4. c \notin Active(n)  BY <3>1, <3>3 DEF Active
    <3> QED  BY <1>1, <1>2, <2>2, <3>2, <3>4 DEF MeshInv, DownInv
  <2> QED  BY <2>1, <2>2
<1>5. CrashedDeposed'  BY <1>1, <1>4 DEF CrashedDeposed, Alive
<1> QED  BY <1>3, <1>5 DEF MeshInv

LEMMA LifeKeeps ==
  ASSUME MeshInv, NEW n \in Nodes, CrashNode(n) \/ RestartNode(n)
  PROVE  MeshInv'
<1>1. StaleAfter \in Nat /\ Unknown = StaleAfter + 2  BY MeshAssumption DEF Unknown
<1>2. CASE CrashNode(n)
  <2>1. /\ down' = down \cup {n} /\ UNCHANGED <<age, coordinator, elected>>
        /\ silent' = [m \in Nodes |-> [silent[m] EXCEPT ![n] = IF m = n THEN 0 ELSE 1]]
    BY <1>2 DEF CrashNode, turnVars
  <2>2. /\ silent' \in [Nodes -> [Nodes -> 0..Unknown]]
        /\ \A m, c \in Nodes : silent'[m][c] = IF c # n THEN silent[m][c]
                                               ELSE IF m = n THEN 0 ELSE 1
    BY <1>1, <2>1 DEF MeshInv, DownInv
  <2>3. ASSUME NEW m \in Nodes, NEW c \in Nodes, silent'[m][c] > 0
        PROVE  age'[m][c] + 1 >= silent'[m][c]
    <3>1. age[m][c] \in Nat /\ age' = age  BY <2>1 DEF MeshInv, DownInv
    <3>2. CASE c = n  BY <2>2, <3>1, <3>2
    <3>3. CASE c # n  BY <2>2, <2>3, <3>1, <3>3 DEF MeshInv, DownInv
    <3> QED  BY <3>2, <3>3
  <2>4. DownInv'  BY <2>1, <2>2, <2>3 DEF MeshInv, DownInv, Alive
  <2>5. CrashedDeposed'
    BY <1>1, <2>1, <2>2 DEF MeshInv, CrashedDeposed, Alive
  <2> QED  BY <2>4, <2>5 DEF MeshInv
<1>3. CASE RestartNode(n)
  <2>1. /\ down' = down \ {n} /\ coordinator' = [coordinator EXCEPT ![n] = 0]
        /\ silent' = [m \in Nodes |-> [silent[m] EXCEPT ![n] = 0]]
        /\ age' \in {age, [age EXCEPT ![n] = [p \in Nodes |-> Unknown]]} /\ elected' = elected
    BY <1>3 DEF RestartNode, turnVars
  <2>2. /\ DOMAIN coordinator' = Nodes /\ coordinator'[n] = 0
        /\ \A m \in Nodes : m # n => coordinator'[m] = coordinator[m]
    BY <2>1 DEF MeshInv, DownInv
  <2>3. /\ silent' \in [Nodes -> [Nodes -> 0..Unknown]]
        /\ \A m, c \in Nodes : silent'[m][c] = IF c = n THEN 0 ELSE silent[m][c]
    BY <1>1, <2>1 DEF MeshInv, DownInv
  <2>4. /\ age' \in [Nodes -> [Nodes -> Nat]]
        /\ \A m, c \in Nodes : age'[m][c] = age[m][c] \/ age'[m][c] = Unknown
    <3> DEFINE blank == [p \in Nodes |-> Unknown]
    <3>1. age \in [Nodes -> [Nodes -> Nat]]  BY DEF MeshInv, DownInv
    <3>2. blank \in [Nodes -> Nat] /\ \A c \in Nodes : blank[c] = Unknown
      BY <1>1
    <3>3. CASE age' = age
      BY <3>1, <3>3
    <3>4. CASE age' = [age EXCEPT ![n] = blank]
      <4> HIDE DEF blank
      <4> QED  BY <3>1, <3>2, <3>4
    <3> QED  BY <2>1, <3>3, <3>4
  <2>5. ASSUME NEW m \in Nodes, NEW c \in Nodes, silent'[m][c] > 0
        PROVE  age'[m][c] + 1 >= silent'[m][c]
    <3>1. c # n /\ silent'[m][c] = silent[m][c]  BY <2>3, <2>5
    <3>2. age[m][c] + 1 >= silent[m][c] /\ silent[m][c] \in 0..Unknown
      BY <2>5, <3>1 DEF MeshInv, DownInv
    <3> QED  BY <1>1, <2>4, <3>1, <3>2
  <2>6. DownInv'
    BY <2>1, <2>2, <2>3, <2>4, <2>5 DEF MeshInv, DownInv, Alive
  <2>7. CrashedDeposed'
    BY <1>1, <2>1, <2>2, <2>3, MeshAssumption DEF MeshInv, CrashedDeposed, Alive
  <2> QED  BY <2>6, <2>7 DEF MeshInv
<1> QED  BY <1>2, <1>3

\* An announcement is handled, at any time after it was made.
LEMMA AnnouncedKeeps ==
  ASSUME MeshInv, NEW n \in Nodes, NEW p \in Nodes, Announced(n, p),
         <<n, p>> \in waiting => n # p,
         UNCHANGED <<coordinator, down, elected>>
  PROVE  MeshInv'
<1>1. n # p /\ Refresh(p, n, Authorised(p)) /\ Authorised(p) \in BOOLEAN
  BY DEF Announced, Authorised
<1>2. silent' = IF ~ Alive(n) /\ Authorised(p) THEN [silent EXCEPT ![p][n] = 1] ELSE silent
  BY DEF Announced
<1>3. Authorised(p) => silent'[p][n] <= 1
  BY <1>2 DEF MeshInv, DownInv
<1>4. DownInv'
  BY <1>1, <1>2, <1>3, RefreshKeeps DEF MeshInv
<1>5. StaleAfter \in Nat /\ Unknown = StaleAfter + 2  BY MeshAssumption DEF Unknown
<1>6. \A m, c \in Nodes : silent'[m][c] = Unknown => silent[m][c] = Unknown
  BY <1>2, <1>5 DEF MeshInv, DownInv
<1>7. CrashedDeposed'  BY <1>6 DEF MeshInv, CrashedDeposed, Alive
<1> QED  BY <1>4, <1>7 DEF MeshInv

\* Nobody announces itself to itself.
NotToSelf == \A n \in Nodes : <<n, n>> \notin waiting

LEMMA NotToSelfStep == NotToSelf /\ [MeshNext]_meshVars => NotToSelf'
<1> SUFFICES ASSUME NotToSelf, [MeshNext]_meshVars PROVE NotToSelf'
  OBVIOUS
<1>1. ASSUME NEW n \in Nodes, NEW p \in Nodes,
             Announce(n, p) \/ AnnounceHandled(n, p) \/ SyncRaises(n, p)
      PROVE  NotToSelf'
  <2>1. CASE Announce(n, p)
    <3>1. n # p /\ waiting' = waiting \cup {<<n, p>>}  BY <2>1 DEF Announce
    <3> QED  BY <3>1 DEF NotToSelf
  <2>2. CASE AnnounceHandled(n, p) \/ SyncRaises(n, p)
    <3>1. waiting' \subseteq waiting
      BY <2>2 DEF AnnounceHandled, SyncRaises, Announced
    <3> QED  BY <3>1 DEF NotToSelf
  <2> QED  BY <1>1, <2>1, <2>2
<1>2. ASSUME NEW n \in Nodes, NEW s \in Syncers, SyncBegins(n, s) \/ SyncStep(n, s)
      PROVE  NotToSelf'
  BY <1>2 DEF NotToSelf, SyncBegins, SyncStep, SyncEnds, Fetched, Unreachable
<1>3. ASSUME NEW n \in Nodes,
             \/ CrashNode(n) \/ RestartNode(n) \/ ChannelStart(n) \/ ChannelStop(n)
             \/ CommandBegins(n) \/ CommandEnds(n)
      PROVE  NotToSelf'
  BY <1>3 DEF NotToSelf, CrashNode, RestartNode, ChannelStart, ChannelStop, CommandBegins,
              CommandEnds, Lost
<1>4. CASE TimePasses \/ UNCHANGED meshVars
  BY <1>4 DEF NotToSelf, TimePasses, meshVars
<1> QED  BY <1>1, <1>2, <1>3, <1>4 DEF MeshNext

LEMMA MeshStep ==
  ASSUME MeshInv, NotToSelf, [MeshNext]_meshVars
  PROVE  MeshInv'
<1>1. CASE UNCHANGED <<age, coordinator, elected, down, silent>>
  BY <1>1 DEF MeshInv, DownInv, CrashedDeposed, Alive
<1>2. CASE TimePasses
  <2>1. elected' = {}  BY <1>2 DEF TimePasses
  <2> QED  BY <1>2, <2>1, TimeKeeps DEF MeshInv, CrashedDeposed
<1>3. ASSUME NEW n \in Nodes, NEW p \in Nodes, AnnounceHandled(n, p) \/ SyncRaises(p, n)
      PROVE  MeshInv'
  <2>1. Announced(n, p) /\ UNCHANGED <<coordinator, down, elected>>
    BY <1>3 DEF AnnounceHandled, SyncRaises, turnVars
  <2> QED  BY <2>1, AnnouncedKeeps DEF NotToSelf
<1>4. ASSUME NEW n \in Nodes, NEW s \in Syncers, NEW p \in Nodes,
             Fetched(n, s, p) \/ Unreachable(n, s, p)
      PROVE  MeshInv'
  <2>1. PICK heard \in BOOLEAN : Refresh(n, p, heard) /\ (heard => Alive(p))
    BY <1>4 DEF Fetched, Unreachable, Serves, Listens
  <2>2. UNCHANGED <<coordinator, elected, down, silent>>
    BY <1>4 DEF Fetched, Unreachable, turnVars, lifeVars
  <2>3. heard => silent'[n][p] <= 1  BY <2>1, <2>2 DEF MeshInv, DownInv
  <2>4. DownInv'  BY <2>1, <2>2, <2>3, RefreshKeeps DEF MeshInv
  <2>5. CrashedDeposed'  BY <2>2 DEF MeshInv, CrashedDeposed, Alive
  <2> QED  BY <2>4, <2>5 DEF MeshInv
<1>5. ASSUME NEW n \in Nodes, NEW s \in Syncers, NEW p \in Nodes,
             ChannelStart(n) \/ ChannelStop(n) \/ CommandBegins(n) \/ CommandEnds(n)
             \/ SyncBegins(n, s) \/ Announce(n, p)
      PROVE  UNCHANGED <<age, coordinator, elected, down, silent>>
  BY <1>5 DEF ChannelStart, ChannelStop, CommandBegins, CommandEnds, SyncBegins, Announce,
              turnVars, lifeVars
<1>6. CASE UNCHANGED meshVars
  BY <1>1, <1>6 DEF meshVars, turnVars, lifeVars
<1>7. Syncers # {}  BY DEF Syncers
<1> QED
  BY <1>1, <1>2, <1>3, <1>4, <1>5, <1>6, <1>7, EndsKeeps, LifeKeeps DEF MeshNext, SyncStep

\* A node that is dead, and of which nothing came up since, is nobody's
\* coordinator once its record has gone stale and the unit after that is over,
\* for any number of nodes, whatever age makes a record stale, and also when what
\* it had announced is handled long after its death: mesh.py:182-186,
\* peer_registry.py:54-55, command_channel.py:209-224.
THEOREM CrashedDeposedAlways == MeshSpec => []CrashedDeposed
<1>1. MeshInit => MeshInv /\ NotToSelf
  <2> SUFFICES ASSUME MeshInit PROVE MeshInv /\ NotToSelf
    OBVIOUS
  <2>1. StaleAfter \in Nat /\ Unknown = StaleAfter + 2  BY MeshAssumption DEF Unknown
  <2>2. age \in [Nodes -> [Nodes -> Nat]]  BY <2>1 DEF MeshInit
  <2>3. /\ silent = [n \in Nodes |-> [p \in Nodes |-> 0]] /\ DOMAIN coordinator = Nodes
        /\ down = {} /\ elected = {} /\ waiting = {}
    BY DEF MeshInit
  <2> QED  BY <2>1, <2>2, <2>3 DEF MeshInv, DownInv, CrashedDeposed, NotToSelf
<1>2. MeshInv /\ NotToSelf /\ [MeshNext]_meshVars => MeshInv'  BY MeshStep
<1>3. MeshInv => CrashedDeposed  BY DEF MeshInv
<1> QED  BY <1>1, <1>2, <1>3, NotToSelfStep, PTL DEF MeshSpec

-----------------------------------------------------------------------------
(* The service registry: a depth-first search, one call at a time.         *)

Parsing == [name : Names, on : Seq(Names), module : BOOLEAN]
Outer   == [left : Seq(Names)]
Inner   == [name : Names, left : Seq(Names)]

\* The types: the first call is that of _compute_load_order().
RegistryOK ==
  /\ deps \in [Shipped -> Seq(Names)]
  /\ known \in Seq(Parsing) /\ order \in Seq(Names) /\ sorted \in Seq(Names)
  /\ calls \in Seq(Outer \cup Inner)
  /\ calls # <<>> => calls[1] \in Outer
  /\ \A j \in 2..Len(calls) : calls[j] \in Inner

\* The visits under way, which of them is within which, and what each has yet
\* to come to.
UnderWay == {calls[j].name : j \in 2..Len(calls)}
Within(m, n) == \E j, k \in 2..Len(calls) : j <= k /\ calls[j].name = m /\ calls[k].name = n
Left(n, d) == \E j \in 2..Len(calls) : calls[j].name = n /\ d \in ToSet(calls[j].left)

Depends(n, d) == d \in ToSet(On(n))
Precedes(s, d, f) == \E h, i \in DOMAIN s : h < i /\ s[h] = d /\ s[i] = f

\* A name that was visited is in the order or a visit of it is under way.
VisitedOnce ==
  /\ visited = ToSet(sorted) \cup UnderWay /\ ToSet(sorted) \cap UnderWay = {}
  /\ IsInjective(sorted)
  /\ \A j, k \in 2..Len(calls) : calls[j].name = calls[k].name => j = k

\* No name is forgotten: neither one of the registry nor a dependency.
NoneForgotten ==
  /\ Registered \subseteq visited \cup ToSet(calls[1].left)
  /\ \A n \in UnderWay, d \in Names :
       /\ Depends(n, d) => d \in visited \/ Left(n, d)
       /\ Left(n, d) => Depends(n, d)

\* A visit depends on those within it; what is in the order comes after its
\* dependencies, but for such as depend on it.
WellOrdered ==
  /\ \A m, n \in Names : Within(m, n) => Reaches(m, n)
  /\ \A f \in ToSet(sorted), d \in Names :
       Depends(f, d) => d \in visited /\ (Reaches(d, f) \/ Precedes(sorted, d, f))

Settled ==
  /\ IsInjective(order) /\ Registered \subseteq ToSet(order)
  /\ \A m, n \in Names : Depends(n, m) /\ Precedes(order, n, m) => Reaches(m, n)

\* The inductive invariant.
OrderInv ==
  /\ RegistryOK
  /\ calls # <<>> => VisitedOnce /\ NoneForgotten /\ WellOrdered
  /\ calls = <<>> => Settled

-----------------------------------------------------------------------------
LEMMA OnTyped ==
  ASSUME RegistryOK, NEW n \in Names
  PROVE  On(n) \in Seq(Names) /\ ToSet(On(n)) \subseteq Names
<1>1. CASE n \in Registered
  <2>1. Parsed(n) \in DOMAIN known
    BY <1>1 DEF Registered, Parsed
  <2>2. known[Parsed(n)] \in Parsing
    BY <2>1 DEF RegistryOK
  <2>3. On(n) \in Seq(Names)
    BY <1>1, <2>2 DEF On, Parsing
  <2> QED  BY <2>3 DEF ToSet
<1>2. CASE n \notin Registered
  BY <1>2 DEF On, ToSet
<1> QED  BY <1>1, <1>2

\* Reaching is reflexive, and goes on along dependencies.
LEMMA ReachesItself == ASSUME NEW n \in Names PROVE Reaches(n, n)
BY DEF Reaches

LEMMA ReachesOn ==
  ASSUME NEW m \in Names, NEW n \in Names, NEW d, Reaches(m, n), Depends(n, d)
  PROVE  Reaches(m, d)
BY DEF Reaches, Depends

\* What only the registry's records decide.
LEMMA SameRecords ==
  ASSUME known' = known
  PROVE  /\ Registered' = Registered
         /\ \A n : On(n)' = On(n)
         /\ \A n, d : Depends(n, d)' <=> Depends(n, d)
         /\ \A m, n : Reaches(m, n)' <=> Reaches(m, n)
<1>1. Registered' = Registered /\ \A n : Parsed(n)' = Parsed(n)
  BY DEF Registered, Parsed
<1>2. \A n : On(n)' = On(n)
  BY <1>1 DEF On
<1>3. \A n : ToSet(On(n))' = ToSet(On(n))
  BY <1>2 DEF ToSet
<1> QED  BY <1>1, <1>2, <1>3 DEF Depends, Reaches

LEMMA Appended ==
  ASSUME NEW S, NEW s \in Seq(S), NEW e \in S
  PROVE  /\ Append(s, e) \in Seq(S) /\ DOMAIN Append(s, e) = DOMAIN s \cup {Len(s) + 1}
         /\ Len(s) + 1 \notin DOMAIN s /\ \A i \in DOMAIN s : i < Len(s) + 1
         /\ \A i \in DOMAIN s : Append(s, e)[i] = s[i]
         /\ Append(s, e)[Len(s) + 1] = e
         /\ ToSet(Append(s, e)) = ToSet(s) \cup {e}
<1>1. /\ Append(s, e) \in Seq(S) /\ DOMAIN Append(s, e) = DOMAIN s \cup {Len(s) + 1}
      /\ Len(s) + 1 \notin DOMAIN s /\ \A i \in DOMAIN s : i < Len(s) + 1
      /\ \A i \in DOMAIN s : Append(s, e)[i] = s[i]
      /\ Append(s, e)[Len(s) + 1] = e
  OBVIOUS
<1> QED  BY <1>1 DEF ToSet

LEMMA HeadAndTail ==
  ASSUME NEW S, NEW s \in Seq(S), s # <<>>
  PROVE  Head(s) \in S /\ Tail(s) \in Seq(S) /\ ToSet(s) = {Head(s)} \cup ToSet(Tail(s))
<1>1. Len(s) \in Nat \ {0} /\ DOMAIN s = 1..Len(s) /\ Head(s) = s[1] /\ Head(s) \in S
  OBVIOUS
<1>2. /\ Tail(s) \in Seq(S) /\ DOMAIN Tail(s) = 1..(Len(s) - 1)
      /\ \A i \in 1..(Len(s) - 1) : Tail(s)[i] = s[i + 1]
  OBVIOUS
<1>3. ToSet(s) = {Head(s)} \cup ToSet(Tail(s))
  <2>1. ASSUME NEW x \in ToSet(s) PROVE x \in {Head(s)} \cup ToSet(Tail(s))
    <3>1. PICK i \in 1..Len(s) : x = s[i]
      BY <1>1 DEF ToSet
    <3>2. CASE i = 1
      BY <1>1, <3>1, <3>2
    <3>3. CASE i # 1
      <4>1. i - 1 \in 1..(Len(s) - 1) /\ (i - 1) + 1 = i
        BY <1>1, <3>3
      <4>2. x = Tail(s)[i - 1]
        BY <1>2, <3>1, <4>1
      <4> QED  BY <1>2, <4>1, <4>2 DEF ToSet
    <3> QED  BY <3>2, <3>3
  <2>2. ASSUME NEW x \in ToSet(Tail(s)) PROVE x \in ToSet(s)
    <3>1. PICK i \in 1..(Len(s) - 1) : x = Tail(s)[i]
      BY <1>2, <2>2 DEF ToSet
    <3>2. i + 1 \in 1..Len(s) /\ x = s[i + 1]
      BY <1>1, <1>2, <3>1
    <3> QED  BY <1>1, <3>2 DEF ToSet
  <2>3. Head(s) \in ToSet(s)
    BY <1>1 DEF ToSet
  <2> QED  BY <2>1, <2>2, <2>3
<1> QED  BY <1>1, <1>2, <1>3

-----------------------------------------------------------------------------
\* The running call goes on to its next name: nothing else of the stack changes.
LEMMA GoesOnward ==
  ASSUME RegistryOK, calls # <<>>, Call.left # <<>>, NEW L, L = Len(calls)
  PROVE  /\ L \in Nat \ {0} /\ Onward \in Seq(Outer \cup Inner) /\ Len(Onward) = L
         /\ Onward[1] \in Outer /\ \A j \in 2..L : Onward[j] \in Inner
         /\ \A j \in 1..L : j # L => Onward[j] = calls[j]
         /\ Onward[L].left = Tail(Call.left)
         /\ L # 1 => Onward[L].name = Call.name
         /\ Head(Call.left) \in Names /\ Tail(Call.left) \in Seq(Names)
         /\ ToSet(Call.left) = {Head(Call.left)} \cup ToSet(Tail(Call.left))
<1>1. L \in Nat \ {0} /\ DOMAIN calls = 1..L
  BY DEF RegistryOK
<1>2. Call = calls[L]
  BY DEF Call
<1>3. IF L = 1 THEN Call \in Outer ELSE Call \in Inner
  <2>1. L = 1 => calls[L] \in Outer
    BY DEF RegistryOK
  <2>2. L # 1 => L \in 2..L
    BY <1>1
  <2>3. L # 1 => calls[L] \in Inner
    BY <2>2 DEF RegistryOK
  <2> QED  BY <1>2, <2>1, <2>3
<1>4. Call.left \in Seq(Names)
  BY <1>3 DEF Outer, Inner
<1>5. /\ Head(Call.left) \in Names /\ Tail(Call.left) \in Seq(Names)
      /\ ToSet(Call.left) = {Head(Call.left)} \cup ToSet(Tail(Call.left))
  BY <1>4, HeadAndTail
<1>c. PICK c : c = [Call EXCEPT !.left = Tail(Call.left)]
  OBVIOUS
<1>6. /\ IF L = 1 THEN c \in Outer ELSE c \in Inner
      /\ c.left = Tail(Call.left)
      /\ L # 1 => c.name = Call.name
  BY <1>3, <1>5, <1>c DEF Outer, Inner
<1>7. Onward = [calls EXCEPT ![L] = c]
  BY <1>c DEF Onward
<1>8. c \in Outer \cup Inner
  BY <1>6
<1>9. /\ Onward \in Seq(Outer \cup Inner) /\ Len(Onward) = L
      /\ \A j \in 1..L : Onward[j] = IF j = L THEN c ELSE calls[j]
  <2>1. calls \in Seq(Outer \cup Inner) /\ L \in 1..Len(calls)
    BY <1>1 DEF RegistryOK
  <2> QED  BY <1>7, <1>8, <2>1, ExceptSeq
<1>10. Onward[1] \in Outer /\ \A j \in 2..L : Onward[j] \in Inner
  <2>1. 1 \in 1..L /\ \A j \in 2..L : j \in 1..L /\ (j = L => L # 1)
    BY <1>1
  <2>2. calls[1] \in Outer /\ \A j \in 2..L : calls[j] \in Inner
    BY DEF RegistryOK
  <2> QED  BY <1>6, <1>9, <2>1, <2>2
<1>11. L \in 1..L /\ \A j \in 1..L : j # L => Onward[j] = calls[j]
  BY <1>1, <1>9
<1>12. Onward[L] = c
  BY <1>9, <1>11
<1>13. Onward[L].left = Tail(Call.left) /\ (L # 1 => Onward[L].name = Call.name)
  BY <1>6, <1>12
<1> QED  BY <1>1, <1>5, <1>9, <1>10, <1>11, <1>13

\* A visit begins, or there is nothing to do.
LEMMA VisitCalledTyped ==
  ASSUME RegistryOK, VisitCalled
  PROVE  RegistryOK'
<1>1. PICK L : L = Len(calls)
  OBVIOUS
<1>2. calls # <<>> /\ Call.left # <<>>
  BY DEF VisitCalled
<1>3. PICK n : n = Head(Call.left)
  OBVIOUS
<1>4. UNCHANGED <<deps, known, order, sorted>>
  BY DEF VisitCalled
<1>5. /\ L \in Nat \ {0} /\ Onward \in Seq(Outer \cup Inner) /\ Len(Onward) = L
      /\ Onward[1] \in Outer /\ \A j \in 2..L : Onward[j] \in Inner
      /\ n \in Names
  BY <1>1, <1>2, <1>3, GoesOnward
<1>6. CASE calls' = Onward
  BY <1>4, <1>5, <1>6 DEF RegistryOK
<1>7. CASE calls' = Append(Onward, [name |-> n, left |-> On(n)])
  <2>1. [name |-> n, left |-> On(n)] \in Inner
    BY <1>5, OnTyped DEF Inner
  <2>2. /\ calls' \in Seq(Outer \cup Inner) /\ Len(calls') = L + 1
        /\ calls'[1] = Onward[1] /\ \A j \in 2..L : calls'[j] = Onward[j]
        /\ calls'[L + 1] \in Inner
    BY <1>5, <1>7, <2>1
  <2>3. \A j \in 2..(L + 1) : calls'[j] \in Inner
    BY <1>5, <2>2
  <2> QED  BY <1>4, <1>5, <2>2, <2>3 DEF RegistryOK
<1> QED  BY <1>3, <1>6, <1>7 DEF VisitCalled

LEMMA VisitCalledKeeps ==
  ASSUME RegistryOK, VisitCalled, VisitedOnce, NoneForgotten, WellOrdered
  PROVE  (VisitedOnce /\ NoneForgotten /\ WellOrdered)'
<1>1. PICK L : L = Len(calls)
  OBVIOUS
<1>2. calls # <<>> /\ Call.left # <<>> /\ Call = calls[L]
  BY <1>1 DEF VisitCalled, Call
<1>3. PICK n : n = Head(Call.left)
  OBVIOUS
<1>4. /\ L \in Nat \ {0} /\ Onward \in Seq(Outer \cup Inner) /\ Len(Onward) = L
      /\ \A j \in 1..L : j # L => Onward[j] = calls[j]
      /\ Onward[L].left = Tail(Call.left)
      /\ L # 1 => Onward[L].name = Call.name
      /\ n \in Names /\ ToSet(Call.left) = {n} \cup ToSet(Tail(Call.left))
  BY <1>1, <1>2, <1>3, GoesOnward
<1>5. UNCHANGED <<known, sorted>>
  BY DEF VisitCalled
<1>6. /\ Registered' = Registered
      /\ \A x, y : Depends(x, y)' <=> Depends(x, y)
      /\ \A x, y : Reaches(x, y)' <=> Reaches(x, y)
  BY <1>5, SameRecords
<1>7. \A x, y : Precedes(sorted, x, y)' <=> Precedes(sorted, x, y)
  BY <1>5 DEF Precedes
<1>8. L \in 2..L => \A j \in 2..L : Onward[j].name = calls[j].name
  BY <1>2, <1>4
<1>9. CASE n \in visited /\ calls' = Onward /\ visited' = visited
  <2>1. Len(calls') = L /\ \A j \in 2..L : calls'[j].name = calls[j].name
    BY <1>2, <1>4, <1>9
  <2>2. UnderWay' = UnderWay
    BY <1>1, <2>1 DEF UnderWay
  <2>3. VisitedOnce'
    BY <1>1, <1>5, <1>9, <2>1, <2>2 DEF VisitedOnce, ToSet, IsInjective
  <2>4. \A x, y : Within(x, y)' <=> Within(x, y)
    BY <1>1, <2>1 DEF Within
  <2>5. WellOrdered'
    BY <1>5, <1>6, <1>7, <1>9, <2>4 DEF WellOrdered, ToSet
  <2>6. \A x, y : (Left(x, y) => y \in visited \/ Left(x, y)') /\ (Left(x, y)' => Left(x, y))
    <3> SUFFICES ASSUME NEW x, NEW y
                 PROVE  (Left(x, y) => y \in visited \/ Left(x, y)') /\ (Left(x, y)' => Left(x, y))
      OBVIOUS
    <3>1. ASSUME NEW j \in 2..L, j # L PROVE calls'[j].left = calls[j].left
      BY <1>4, <1>9, <3>1
    <3>2. L \in 2..L => ToSet(calls[L].left) = {n} \cup ToSet(calls'[L].left)
      BY <1>2, <1>4, <1>9
    <3>3. \A j \in 2..L : \/ ToSet(calls'[j].left) = ToSet(calls[j].left)
                          \/ ToSet(calls[j].left) = {n} \cup ToSet(calls'[j].left)
      BY <3>1, <3>2
    <3> QED  BY <1>1, <1>9, <2>1, <3>3 DEF Left
  <2>7. NoneForgotten'
    <3>1. ToSet(calls[1].left) \subseteq {n} \cup ToSet(calls'[1].left)
      BY <1>2, <1>4, <1>9
    <3>2. Registered' \subseteq visited' \cup ToSet(calls'[1].left)
      BY <1>6, <1>9, <3>1 DEF NoneForgotten
    <3> QED  BY <1>6, <1>9, <2>2, <2>6, <3>2 DEF NoneForgotten
  <2> QED  BY <2>3, <2>5, <2>7
<1>10. CASE /\ n \notin visited /\ visited' = visited \cup {n}
            /\ calls' = Append(Onward, [name |-> n, left |-> On(n)])
  <2>1. /\ Len(calls') = L + 1 /\ \A j \in 1..L : calls'[j] = Onward[j]
        /\ calls'[L + 1] = [name |-> n, left |-> On(n)]
    BY <1>4, <1>10
  <2>2. /\ \A j \in 2..L : calls'[j].name = calls[j].name
        /\ calls'[L + 1].name = n /\ calls'[L + 1].left = On(n)
        /\ 2..(L + 1) = 2..L \cup {L + 1} /\ L + 1 \notin 2..L
    BY <1>2, <1>4, <2>1
  <2>3. UnderWay' = UnderWay \cup {n} /\ n \notin UnderWay /\ n \notin ToSet(sorted)
    BY <1>1, <1>10, <2>1, <2>2 DEF UnderWay, VisitedOnce
  <2>4. VisitedOnce'
    <3>1. \A j, k \in 2..(L + 1) : calls'[j].name = calls'[k].name => j = k
      <4>1. \A j \in 2..L : calls'[j].name # n
        BY <1>1, <2>2, <2>3 DEF UnderWay
      <4> QED  BY <1>1, <2>2, <4>1 DEF VisitedOnce
    <3>2. IsInjective(sorted)' /\ ToSet(sorted)' = ToSet(sorted)
      BY <1>5 DEF IsInjective, VisitedOnce, ToSet
    <3> QED  BY <1>10, <2>1, <2>3, <3>1, <3>2 DEF VisitedOnce
  <2>5. \A j \in 2..L : \/ ToSet(calls'[j].left) = ToSet(calls[j].left)
                        \/ ToSet(calls[j].left) = {n} \cup ToSet(calls'[j].left)
    <3>1. ASSUME NEW j \in 2..L, j # L PROVE calls'[j].left = calls[j].left
      BY <1>4, <2>1, <3>1
    <3>2. L \in 2..L => ToSet(calls[L].left) = {n} \cup ToSet(calls'[L].left)
      BY <1>2, <1>4, <2>1
    <3> QED  BY <3>1, <3>2
  <2>6. \A x, y : Left(x, y)' <=> \/ x = n /\ Depends(n, y)
                                  \/ \E j \in 2..L : calls[j].name = x /\ y \in ToSet(calls'[j].left)
    <3>1. \A x, y : Left(x, y)' <=> \E j \in 2..(L + 1) : calls'[j].name = x
                                                       /\ y \in ToSet(calls'[j].left)
      BY <2>1 DEF Left
    <3>2. \A y : Depends(n, y) <=> y \in ToSet(calls'[L + 1].left)
      BY <2>2 DEF Depends
    <3> QED  BY <2>2, <3>1, <3>2
  <2>7. \A x, y : x # n => /\ Left(x, y) => y = n \/ Left(x, y)'
                           /\ Left(x, y)' => Left(x, y)
    <3> SUFFICES ASSUME NEW x, NEW y, x # n
                 PROVE  (Left(x, y) => y = n \/ Left(x, y)') /\ (Left(x, y)' => Left(x, y))
      OBVIOUS
    <3>1. Left(x, y)' <=> \E j \in 2..L : calls[j].name = x /\ y \in ToSet(calls'[j].left)
      BY <2>6
    <3>2. Left(x, y) <=> \E j \in 2..L : calls[j].name = x /\ y \in ToSet(calls[j].left)
      BY <1>1 DEF Left
    <3> QED  BY <2>5, <3>1, <3>2
  <2>8. \A y : Left(n, y)' <=> Depends(n, y)
    <3>1. \A j \in 2..L : calls[j].name # n
      BY <1>1, <2>3 DEF UnderWay
    <3> QED  BY <2>6, <3>1
  <2>9. NoneForgotten'
    <3>1. ToSet(calls[1].left) \subseteq {n} \cup ToSet(calls'[1].left)
      BY <1>2, <1>4, <2>1
    <3>2. Registered' \subseteq visited' \cup ToSet(calls'[1].left)
      BY <1>6, <1>10, <3>1 DEF NoneForgotten
    <3> QED  BY <1>6, <1>10, <2>3, <2>7, <2>8, <3>2 DEF NoneForgotten
  <2>10. \A m \in Names : Within(m, n)' => Reaches(m, n)
    <3>1. L # 1 => Depends(Call.name, n) /\ Call.name \in Names
      <4>1. L # 1 => L \in 2..L /\ Call \in Inner
        BY <1>1, <1>2, <1>4 DEF RegistryOK
      <4>2. L # 1 => Left(Call.name, n) /\ Call.name \in UnderWay /\ Call.name \in Names
        BY <1>1, <1>2, <1>4, <4>1 DEF Left, UnderWay, Inner
      <4> QED  BY <1>4, <4>2 DEF NoneForgotten
    <3>2. ASSUME NEW m \in Names, NEW j \in 2..L, calls[j].name = m PROVE Reaches(m, n)
      <4>1. L # 1 /\ L \in 2..L /\ j <= L
        BY <1>4
      <4>2. Within(m, Call.name)
        BY <1>1, <1>2, <3>2, <4>1 DEF Within
      <4>3. Reaches(m, Call.name)
        BY <3>1, <4>1, <4>2 DEF WellOrdered
      <4> QED  BY <1>4, <3>1, <4>1, <4>3, ReachesOn
    <3>3. \A m \in Names : Within(m, n)' => m = n \/ \E j \in 2..L : calls[j].name = m
      BY <2>1, <2>2 DEF Within
    <3> QED  BY <3>2, <3>3, ReachesItself
  <2>11. \A x, y : Within(x, y)' => y = n \/ Within(x, y)
    <3> SUFFICES ASSUME NEW x, NEW y, Within(x, y)', y # n PROVE Within(x, y)
      OBVIOUS
    <3>1. PICK j, k \in 2..(L + 1) : j <= k /\ calls'[j].name = x /\ calls'[k].name = y
      BY <2>1 DEF Within
    <3>2. k \in 2..L
      BY <2>2, <3>1
    <3>3. j \in 2..L
      BY <1>4, <3>1, <3>2
    <3> QED  BY <1>1, <2>2, <3>1, <3>2, <3>3 DEF Within
  <2>12. WellOrdered'
    <3>1. ToSet(sorted)' = ToSet(sorted)
      BY <1>5 DEF ToSet
    <3>2. \A x, y \in Names : Within(x, y)' => Reaches(x, y)
      BY <2>10, <2>11 DEF WellOrdered
    <3> QED  BY <1>6, <1>7, <1>10, <3>1, <3>2 DEF WellOrdered
  <2> QED  BY <2>4, <2>9, <2>12
<1> QED  BY <1>3, <1>9, <1>10 DEF VisitCalled

-----------------------------------------------------------------------------
\* A visit returns, and its name is the last in the order.
LEMMA Returned ==
  ASSUME RegistryOK, VisitReturns, NEW L, L = Len(calls), NEW n, n = Call.name
  PROVE  /\ L \in Nat /\ L \in 2..L /\ n \in Names
         /\ calls[L].name = n /\ calls[L].left = <<>>
         /\ calls' \in Seq(Outer \cup Inner) /\ Len(calls') = L - 1
         /\ \A j \in 1..(L - 1) : calls'[j] = calls[j]
         /\ 2..L = 2..(L - 1) \cup {L} /\ L \notin 2..(L - 1)
         /\ \A j \in 2..(L - 1) : j \in 1..(L - 1) /\ j < L
         /\ sorted' = Append(sorted, n)
<1>1. L > 1 /\ Call.left = <<>> /\ sorted' = Append(sorted, n) /\ calls' = SubSeq(calls, 1, L - 1)
  BY DEF VisitReturns
<1>2. L \in Nat /\ calls \in Seq(Outer \cup Inner)
  BY DEF RegistryOK
<1>3. /\ L \in 2..L /\ 2..L = 2..(L - 1) \cup {L} /\ L \notin 2..(L - 1)
      /\ \A j \in 2..(L - 1) : j \in 1..(L - 1) /\ j < L
  BY <1>1, <1>2
<1>4. calls[L] \in Inner /\ Call = calls[L]
  BY <1>3 DEF RegistryOK, Call
<1>5. n \in Names /\ calls[L].name = n /\ calls[L].left = <<>>
  BY <1>1, <1>4 DEF Inner
<1>6. /\ calls' \in Seq(Outer \cup Inner) /\ Len(calls') = L - 1
      /\ \A j \in 1..(L - 1) : calls'[j] = calls[j]
  BY <1>1, <1>2
<1> QED  BY <1>1, <1>2, <1>3, <1>5, <1>6

LEMMA VisitReturnsTyped ==
  ASSUME RegistryOK, VisitReturns
  PROVE  RegistryOK'
<1>1. PICK L, n : L = Len(calls) /\ n = Call.name
  OBVIOUS
<1>2. /\ L \in Nat /\ L \in 2..L /\ n \in Names
      /\ calls' \in Seq(Outer \cup Inner) /\ Len(calls') = L - 1
      /\ \A j \in 1..(L - 1) : calls'[j] = calls[j]
      /\ \A j \in 2..(L - 1) : j \in 1..(L - 1) /\ j < L
      /\ 2..L = 2..(L - 1) \cup {L}
      /\ sorted' = Append(sorted, n)
  BY <1>1, Returned
<1>3. UNCHANGED <<deps, known, order>>
  BY DEF VisitReturns
<1>4. sorted' \in Seq(Names)
  BY <1>2 DEF RegistryOK
<1>5. calls[1] \in Outer /\ calls'[1] = calls[1]
  <2>1. 1 \in 1..(L - 1) /\ calls # <<>>
    BY <1>1, <1>2
  <2> QED  BY <1>2, <2>1 DEF RegistryOK
<1>6. \A j \in 2..Len(calls') : calls'[j] \in Inner
  BY <1>1, <1>2 DEF RegistryOK
<1> QED  BY <1>2, <1>3, <1>4, <1>5, <1>6 DEF RegistryOK

LEMMA VisitReturnsKeeps ==
  ASSUME RegistryOK, VisitReturns, VisitedOnce, NoneForgotten, WellOrdered
  PROVE  (VisitedOnce /\ NoneForgotten /\ WellOrdered)'
<1>1. PICK L, n : L = Len(calls) /\ n = Call.name
  OBVIOUS
<1>2. /\ L \in Nat /\ L \in 2..L /\ n \in Names
      /\ calls[L].name = n /\ calls[L].left = <<>>
      /\ Len(calls') = L - 1
      /\ 2..L = 2..(L - 1) \cup {L} /\ L \notin 2..(L - 1)
      /\ \A j \in 2..(L - 1) : j \in 1..(L - 1) /\ j < L
      /\ sorted' = Append(sorted, n)
  BY <1>1, Returned
<1>3. calls'[1] = calls[1] /\ \A j \in 2..(L - 1) : calls'[j] = calls[j]
  <2>1. 1 \in 1..(L - 1) /\ \A j \in 1..(L - 1) : calls'[j] = calls[j]
    BY <1>1, <1>2, Returned
  <2> QED  BY <1>2, <2>1
<1>4. UNCHANGED <<known, visited>>
  BY DEF VisitReturns
<1>5. /\ Registered' = Registered
      /\ \A x, y : Depends(x, y)' <=> Depends(x, y)
      /\ \A x, y : Reaches(x, y)' <=> Reaches(x, y)
  BY <1>4, SameRecords
<1>6. \A j \in 2..(L - 1) : calls[j].name # n
  BY <1>1, <1>2 DEF VisitedOnce
<1>7. UnderWay = UnderWay' \cup {n} /\ n \notin UnderWay'
  <2>1. UnderWay' = {calls[j].name : j \in 2..(L - 1)}
    BY <1>2, <1>3 DEF UnderWay
  <2>2. UnderWay = {calls[j].name : j \in 2..(L - 1)} \cup {n}
    BY <1>1, <1>2 DEF UnderWay
  <2> QED  BY <1>6, <2>1, <2>2
<1>8. n \notin ToSet(sorted)
  BY <1>7 DEF VisitedOnce
<1>9. PICK E : E = Len(sorted) + 1
  OBVIOUS
<1>10. /\ DOMAIN sorted' = DOMAIN sorted \cup {E} /\ E \notin DOMAIN sorted
       /\ \A i \in DOMAIN sorted : i < E /\ sorted'[i] = sorted[i]
       /\ sorted'[E] = n
       /\ ToSet(sorted') = ToSet(sorted) \cup {n}
  BY <1>2, <1>9, Appended DEF RegistryOK
<1>11. \A i \in DOMAIN sorted : sorted[i] \in ToSet(sorted)
  BY DEF ToSet
<1>12. VisitedOnce'
  <2>1. ToSet(sorted)' = ToSet(sorted) \cup {n}
    BY <1>10 DEF ToSet
  <2>2. IsInjective(sorted')
    BY <1>8, <1>10, <1>11 DEF IsInjective, VisitedOnce
  <2>3. \A j, k \in 2..Len(calls') : calls'[j].name = calls'[k].name => j = k
    BY <1>1, <1>2, <1>3 DEF VisitedOnce
  <2> QED  BY <1>4, <1>7, <1>8, <2>1, <2>2, <2>3 DEF VisitedOnce, IsInjective
<1>13. \A x, y : Left(x, y)' <=> Left(x, y)
  <2> SUFFICES ASSUME NEW x, NEW y PROVE Left(x, y)' <=> Left(x, y)
    OBVIOUS
  <2>1. Left(x, y)' <=> \E j \in 2..(L - 1) : calls[j].name = x /\ y \in ToSet(calls[j].left)
    BY <1>2, <1>3 DEF Left
  <2>2. y \notin ToSet(calls[L].left)
    BY <1>2 DEF ToSet
  <2> QED  BY <1>1, <1>2, <2>1, <2>2 DEF Left
<1>14. NoneForgotten'
  <2>1. ToSet(calls[1].left)' = ToSet(calls[1].left)
    BY <1>3 DEF ToSet
  <2> QED  BY <1>4, <1>5, <1>7, <1>13, <2>1 DEF NoneForgotten
<1>15. \A x, y : Within(x, y)' => Within(x, y)
  BY <1>1, <1>2, <1>3 DEF Within
<1>16. \A d \in Names : Depends(n, d) => d \in visited /\ (Reaches(d, n) \/ Precedes(sorted', d, n))
  <2> SUFFICES ASSUME NEW d \in Names, Depends(n, d)
               PROVE  d \in visited /\ (Reaches(d, n) \/ Precedes(sorted', d, n))
    OBVIOUS
  <2>1. ~ Left(n, d)
    <3>1. d \notin ToSet(calls[L].left)
      BY <1>2 DEF ToSet
    <3> QED  BY <1>1, <1>2, <1>6, <3>1 DEF Left
  <2>2. d \in visited
    BY <1>7, <2>1 DEF NoneForgotten
  <2>3. CASE d \in UnderWay
    <3>1. PICK j \in 2..L : calls[j].name = d
      BY <1>1, <2>3 DEF UnderWay
    <3>2. Within(d, n)
      BY <1>1, <1>2, <3>1 DEF Within
    <3> QED  BY <1>2, <2>2, <3>2 DEF WellOrdered
  <2>4. CASE d \in ToSet(sorted)
    <3>1. PICK i \in DOMAIN sorted : sorted[i] = d
      BY <2>4 DEF ToSet
    <3> QED  BY <1>10, <2>2, <3>1 DEF Precedes
  <2> QED  BY <2>2, <2>3, <2>4 DEF VisitedOnce
<1>17. \A x, y : Precedes(sorted, x, y) => Precedes(sorted', x, y)
  BY <1>10 DEF Precedes
<1>18. WellOrdered'
  <2>1. \A x, y \in Names : Within(x, y)' => Reaches(x, y)
    BY <1>15 DEF WellOrdered
  <2>2. \A f \in ToSet(sorted'), d \in Names :
          Depends(f, d) => d \in visited /\ (Reaches(d, f) \/ Precedes(sorted', d, f))
    BY <1>10, <1>16, <1>17 DEF WellOrdered
  <2>3. /\ ToSet(sorted)' = ToSet(sorted')
        /\ \A x, y : Precedes(sorted, x, y)' <=> Precedes(sorted', x, y)
    BY DEF ToSet, Precedes
  <2> QED  BY <1>4, <1>5, <2>1, <2>2, <2>3 DEF WellOrdered
<1> QED  BY <1>12, <1>14, <1>18

-----------------------------------------------------------------------------
\* The search is over: nothing is under way, so what was visited is in the order.
LEMMA OrderSettled ==
  ASSUME RegistryOK, OrderComputed, VisitedOnce, NoneForgotten, WellOrdered
  PROVE  (RegistryOK /\ Settled)' /\ calls' = <<>>
<1>1. /\ Len(calls) = 1 /\ calls # <<>> /\ Call.left = <<>> /\ Call = calls[1]
      /\ order' = sorted /\ calls' = <<>> /\ UNCHANGED <<deps, known, sorted>>
  BY DEF OrderComputed, Call
<1>2. RegistryOK'
  BY <1>1 DEF RegistryOK
<1>3. UnderWay = {}
  BY <1>1 DEF UnderWay
<1>4. Registered \subseteq ToSet(sorted)
  <2>1. ToSet(calls[1].left) = {}
    BY <1>1 DEF ToSet
  <2> QED  BY <1>3, <2>1 DEF NoneForgotten, VisitedOnce
<1>5. /\ Registered' = Registered
      /\ \A x, y : Depends(x, y)' <=> Depends(x, y)
      /\ \A x, y : Reaches(x, y)' <=> Reaches(x, y)
  BY <1>1, SameRecords
<1>6. ASSUME NEW m \in Names, NEW n \in Names, Depends(n, m), Precedes(sorted, n, m)
      PROVE  Reaches(m, n)
  <2>1. PICK h, i \in DOMAIN sorted : h < i /\ sorted[h] = n /\ sorted[i] = m
    BY <1>6 DEF Precedes
  <2>2. Reaches(m, n) \/ Precedes(sorted, m, n)
    BY <1>6, <2>1 DEF WellOrdered, ToSet
  <2>3. ASSUME Precedes(sorted, m, n) PROVE FALSE
    <3>1. PICK j, k \in DOMAIN sorted : j < k /\ sorted[j] = m /\ sorted[k] = n
      BY <2>3 DEF Precedes
    <3>2. j = i /\ k = h
      BY <2>1, <3>1 DEF VisitedOnce, IsInjective
    <3>3. i \in Nat /\ h \in Nat
      BY <2>1 DEF RegistryOK
    <3> QED  BY <2>1, <3>1, <3>2, <3>3
  <2> QED  BY <2>2, <2>3
<1>7. Settled'
  <2>1. IsInjective(sorted) = IsInjective(order)' /\ ToSet(order)' = ToSet(sorted)
    BY <1>1 DEF IsInjective, ToSet
  <2>2. \A x, y : Precedes(order, x, y)' <=> Precedes(sorted, x, y)
    BY <1>1 DEF Precedes
  <2> QED  BY <1>4, <1>5, <1>6, <2>1, <2>2 DEF Settled, VisitedOnce
<1> QED  BY <1>1, <1>2, <1>7

-----------------------------------------------------------------------------
\* A discovery begins the search, with the names of its registry to go through.
LEMMA DiscoverBegins ==
  ASSUME RegistryOK, Discover
  PROVE  (RegistryOK /\ VisitedOnce /\ NoneForgotten /\ WellOrdered)' /\ calls' # <<>>
<1>1. PICK new \in Arrivals :
        known' = [i \in DOMAIN known |->
                    IF known[i].name \in {n \in Names : descriptor[n] # "none"}
                      THEN Parse(known[i].name) ELSE known[i]]
                 \o [i \in DOMAIN new |-> Parse(new[i])]
  BY DEF Discover
<1>2. /\ calls' = <<[left |-> [i \in DOMAIN known' |-> known'[i].name]]>>
      /\ visited' = {} /\ sorted' = <<>> /\ UNCHANGED <<deps, order>>
  BY DEF Discover
<1>3. \A x \in Names : Parse(x) \in Parsing
  BY DEF Parse, Parsing, DependsOn, RegistryOK
<1>4. known' \in Seq(Parsing)
  <2>1. Arrived \subseteq Names /\ Cardinality(Arrived) \in Nat
    <3>1. IsFiniteSet(Names) /\ Arrived \subseteq Names
      BY ExtensionsAssumption DEF Names, Arrived
    <3> QED  BY <3>1, FS_Subset, FS_CardinalityType
  <2>2. [i \in DOMAIN new |-> Parse(new[i])] \in Seq(Parsing)
    <3>1. new \in [1..Cardinality(Arrived) -> Arrived]
      BY DEF Arrivals
    <3>2. DOMAIN new = 1..Cardinality(Arrived) /\ \A i \in DOMAIN new : Parse(new[i]) \in Parsing
      BY <1>3, <2>1, <3>1
    <3> QED  BY <2>1, <3>2
  <2>3. [i \in DOMAIN known |->
           IF known[i].name \in {n \in Names : descriptor[n] # "none"}
             THEN Parse(known[i].name) ELSE known[i]] \in Seq(Parsing)
    <3>1. known \in Seq(Parsing) /\ DOMAIN known = 1..Len(known) /\ Len(known) \in Nat
      BY DEF RegistryOK
    <3>2. \A i \in 1..Len(known) : known[i] \in Parsing
      BY <3>1
    <3>3. \A i \in 1..Len(known) :
            (IF known[i].name \in {n \in Names : descriptor[n] # "none"}
               THEN Parse(known[i].name) ELSE known[i]) \in Parsing
      BY <1>3, <3>2
    <3> QED  BY <3>1, <3>3
  <2> QED  BY <1>1, <2>2, <2>3
<1>5. PICK N : N = [i \in DOMAIN known' |-> known'[i].name]
  OBVIOUS
<1>6. N \in Seq(Names) /\ ToSet(N) = Registered'
  <2>1. DOMAIN known' = 1..Len(known') /\ Len(known') \in Nat
    BY <1>4
  <2>2. \A i \in 1..Len(known') : known'[i].name \in Names
    <3>1. \A i \in 1..Len(known') : known'[i] \in Parsing
      BY <1>4
    <3> QED  BY <3>1 DEF Parsing
  <2> QED  BY <1>5, <2>1, <2>2 DEF ToSet, Registered
<1>7. /\ calls' = <<[left |-> N]>> /\ [left |-> N] \in Outer
      /\ Len(calls') = 1 /\ calls'[1].left = N
  BY <1>2, <1>5, <1>6 DEF Outer
<1>8. 2..Len(calls') = {}
  BY <1>7
<1>9. RegistryOK'
  BY <1>2, <1>4, <1>7, <1>8 DEF RegistryOK
<1>10. UnderWay' = {} /\ ToSet(sorted') = {}
  BY <1>2, <1>8 DEF UnderWay, ToSet
<1>11. VisitedOnce'
  BY <1>2, <1>8, <1>10 DEF VisitedOnce, IsInjective, ToSet
<1>12. NoneForgotten'
  BY <1>6, <1>7, <1>10 DEF NoneForgotten
<1>13. WellOrdered'
  BY <1>2, <1>8 DEF WellOrdered, Within, ToSet
<1> QED  BY <1>7, <1>9, <1>11, <1>12, <1>13

\* What the search and the discovery do not touch.
LEMMA OrderKept ==
  ASSUME OrderInv, UNCHANGED <<deps, known, orderVars>>
  PROVE  OrderInv'
<1>1. UNCHANGED <<deps, known, order, calls, visited, sorted>>
  BY DEF orderVars
<1>2. /\ Registered' = Registered
      /\ \A x, y : Depends(x, y)' <=> Depends(x, y)
      /\ \A x, y : Reaches(x, y)' <=> Reaches(x, y)
  BY <1>1, SameRecords
<1>3. RegistryOK' <=> RegistryOK
  BY <1>1 DEF RegistryOK
<1>4. VisitedOnce' <=> VisitedOnce
  BY <1>1 DEF VisitedOnce, UnderWay, ToSet, IsInjective
<1>5. UnderWay' = UnderWay /\ \A x, y : Left(x, y)' <=> Left(x, y)
  BY <1>1 DEF UnderWay, Left, ToSet
<1>6. NoneForgotten' <=> NoneForgotten
  <2>1. ToSet(calls[1].left)' = ToSet(calls[1].left)
    BY <1>1 DEF ToSet
  <2> QED  BY <1>1, <1>2, <1>5, <2>1 DEF NoneForgotten
<1>7. \A x, y : /\ Within(x, y)' <=> Within(x, y)
                /\ Precedes(sorted, x, y)' <=> Precedes(sorted, x, y)
                /\ Precedes(order, x, y)' <=> Precedes(order, x, y)
  BY <1>1 DEF Within, Precedes
<1>8. ToSet(sorted)' = ToSet(sorted) /\ ToSet(order)' = ToSet(order)
      /\ IsInjective(order)' = IsInjective(order)
  BY <1>1 DEF ToSet, IsInjective
<1>9. WellOrdered' <=> WellOrdered
  BY <1>1, <1>2, <1>7, <1>8 DEF WellOrdered
<1>10. Settled' <=> Settled
  BY <1>2, <1>7, <1>8 DEF Settled
<1> QED  BY <1>1, <1>3, <1>4, <1>6, <1>9, <1>10 DEF OrderInv

LEMMA OrderInit ==
  ASSUME ExtensionsInit
  PROVE  OrderInv
<1>1. /\ known = <<>> /\ order = <<>> /\ calls = <<>> /\ sorted = <<>>
      /\ deps \in [Shipped -> {s \in SeqOf(Names, MaxDeps) : IsInjective(s)}]
  BY DEF ExtensionsInit
<1>2. \A s \in SeqOf(Names, MaxDeps) : s \in Seq(Names)
  BY ExtensionsAssumption DEF SeqOf
<1>3. deps \in [Shipped -> Seq(Names)]
  BY <1>1, <1>2
<1>4. RegistryOK
  BY <1>1, <1>3 DEF RegistryOK
<1>5. Settled
  BY <1>1 DEF Settled, Registered, Precedes, IsInjective
<1> QED  BY <1>1, <1>4, <1>5 DEF OrderInv

LEMMA OrderStep ==
  ASSUME OrderInv, [ExtensionsNext]_extensionVars
  PROVE  OrderInv'
<1>1. CASE Discover
  BY <1>1, DiscoverBegins DEF OrderInv
<1>2. CASE VisitCalled
  <2>1. calls # <<>> /\ calls' # <<>>
    <3>1. PICK L : L = Len(calls)
      OBVIOUS
    <3>2. calls # <<>> /\ Call.left # <<>>
      BY <1>2 DEF VisitCalled
    <3>3. L \in Nat \ {0} /\ Onward \in Seq(Outer \cup Inner) /\ Len(Onward) = L
      BY <3>1, <3>2, GoesOnward DEF OrderInv
    <3>4. \A e : Append(Onward, e) # <<>>
      BY <3>3
    <3>5. Onward # <<>>
      BY <3>3
    <3>6. calls' = Onward \/ \E e : calls' = Append(Onward, e)
      BY <1>2 DEF VisitCalled
    <3> QED  BY <3>2, <3>4, <3>5, <3>6
  <2> QED  BY <1>2, <2>1, VisitCalledTyped, VisitCalledKeeps DEF OrderInv
<1>3. CASE VisitReturns
  <2>1. calls # <<>> /\ calls' # <<>>
    <3>1. PICK L, n : L = Len(calls) /\ n = Call.name
      OBVIOUS
    <3>2. L \in Nat /\ L \in 2..L /\ Len(calls') = L - 1
      BY <1>3, <3>1, Returned DEF OrderInv
    <3>3. Len(<<>>) = 0 /\ Len(calls) # 0 /\ Len(calls') # 0
      BY <3>1, <3>2
    <3> QED  BY <3>3
  <2> QED  BY <1>3, <2>1, VisitReturnsTyped, VisitReturnsKeeps DEF OrderInv
<1>4. CASE OrderComputed
  <2>1. calls # <<>>
    BY <1>4 DEF OrderComputed
  <2> QED  BY <1>4, <2>1, OrderSettled DEF OrderInv
<1>5. CASE StartAll \/ StartNext \/ (\E n \in Names : Start(n) \/ Stop(n))
           \/ \E n \in Made : ScaffoldService(n)
  <2>1. UNCHANGED <<deps, known, orderVars>>
    BY <1>5 DEF StartAll, StartNext, Start, Stop, ScaffoldService
  <2> QED  BY <2>1, OrderKept
<1>6. CASE PluginsNext \/ UNCHANGED extensionVars
  <2>1. UNCHANGED <<deps, known, orderVars>>
    BY <1>6 DEF PluginsNext, ScaffoldPlugin, LoadPlugins, extensionVars, serviceVars
  <2> QED  BY <2>1, OrderKept
<1> QED  BY <1>1, <1>2, <1>3, <1>4, <1>5, <1>6 DEF ExtensionsNext, ServicesNext

LEMMA OrderAsStated ==
  ASSUME OrderInv
  PROVE  DependenciesFirst
<1> SUFFICES ASSUME calls = <<>>
             PROVE  /\ IsInjective(order) /\ Registered \subseteq ToSet(order)
                    /\ \A i, j \in DOMAIN order :
                         order[j] \in ToSet(On(order[i])) /\ i < j => Reaches(order[j], order[i])
  BY DEF DependenciesFirst
<1>1. Settled /\ \A i \in DOMAIN order : order[i] \in Names
  BY DEF OrderInv, RegistryOK
<1>2. ASSUME NEW i \in DOMAIN order, NEW j \in DOMAIN order,
             order[j] \in ToSet(On(order[i])), i < j
      PROVE  Reaches(order[j], order[i])
  <2>1. PICK m, n \in Names : m = order[j] /\ n = order[i]
    BY <1>1
  <2>2. Depends(n, m) /\ Precedes(order, n, m)
    BY <1>2, <2>1 DEF Depends, Precedes
  <2> QED  BY <1>1, <2>1, <2>2 DEF Settled
<1> QED  BY <1>1, <1>2 DEF Settled

\* Whatever the services depend on, cyclic, missing or found by a later discovery:
\* every service is in the load order once and after each service that it depends
\* on, unless that depends on it in turn: registry.py:242-259.
THEOREM DependenciesFirstAlways == ExtensionsSpec => []DependenciesFirst
<1>1. ExtensionsInit => OrderInv
  BY OrderInit
<1>2. OrderInv /\ [ExtensionsNext]_extensionVars => OrderInv'
  BY OrderStep
<1>3. OrderInv => DependenciesFirst
  BY OrderAsStated
<1> QED  BY <1>1, <1>2, <1>3, PTL DEF ExtensionsSpec
=============================================================================
