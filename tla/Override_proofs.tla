--------------------------- MODULE Override_proofs ---------------------------
(***************************************************************************)
(* What holds of the permission model, of the override layer's audit trail *)
(* and of AURA's escalations on every host, for any capabilities that are  *)
(* asked for and any number of requests, modes and decisions.              *)
(***************************************************************************)
EXTENDS Override, TLAPS

-----------------------------------------------------------------------------
(* Permissions: what the history says.                                     *)

\* Only the first n entries count.
Agree(g, h, n) == \A i \in 1..n : g[i] = h[i]

LEMMA HistoryIsLocal ==
  ASSUME NEW g, NEW h, NEW n \in Nat, Agree(g, h, n), NEW c
  PROVE  /\ \A m : InForce(g, n, m) <=> InForce(h, n, m)
         /\ StillRevoked(g, n, c) <=> StillRevoked(h, n, c)
         /\ StillGranted(g, n, c) <=> StillGranted(h, n, c)
         /\ LawfulAfter(g, n, c) <=> LawfulAfter(h, n, c)
<1>1. ASSUME NEW k \in Nat, k <= n, NEW m PROVE InForce(g, k, m) <=> InForce(h, k, m)
  <2>1. \A i \in 1..k : g[i] = h[i]
    BY <1>1 DEF Agree
  <2>2. \A i \in 1..k : \A j \in (i + 1)..k : j \in 1..k
    BY <1>1
  <2> QED  BY <2>1, <2>2 DEF InForce
<1>2. ASSUME NEW j \in 1..n PROVE StepsDown(g, j) <=> StepsDown(h, j)
  <2>1. j - 1 \in Nat /\ j - 1 <= n /\ g[j] = h[j]
    BY DEF Agree
  <2> QED  BY <1>1, <2>1 DEF StepsDown
<1>3. \A i \in 1..n : g[i] = h[i] /\ \A j \in (i + 1)..n : j \in 1..n /\ g[j] = h[j]
  BY DEF Agree
<1>4. StillRevoked(g, n, c) <=> StillRevoked(h, n, c)
  BY <1>3 DEF StillRevoked
<1>5. StillGranted(g, n, c) <=> StillGranted(h, n, c)
  BY <1>2, <1>3 DEF StillGranted
<1>6. \A m : InForce(g, n, m) <=> InForce(h, n, m)
  BY <1>1
<1> QED  BY <1>4, <1>5, <1>6 DEF LawfulAfter

\* What one entry more changes.
LEMMA HistoryGrows ==
  ASSUME NEW h, NEW n \in Nat, NEW c
  PROVE  /\ \A m : InForce(h, n + 1, m) <=>
                     IF h[n + 1].what = "mode" THEN h[n + 1].of = m ELSE InForce(h, n, m)
         /\ StillRevoked(h, n + 1, c) <=>
              \/ Does(h[n + 1], "revoke", c)
              \/ /\ StillRevoked(h, n, c)
                 /\ ~ Does(h[n + 1], "grant", c) /\ h[n + 1].what # "reset"
         /\ StillGranted(h, n + 1, c) <=>
              \/ Does(h[n + 1], "grant", c)
              \/ /\ StillGranted(h, n, c)
                 /\ ~ Does(h[n + 1], "revoke", c)
                 /\ h[n + 1].what # "reset" /\ ~ StepsDown(h, n + 1)
<1>1. 1..(n + 1) = 1..n \cup {n + 1} /\ (n + 1 + 1)..(n + 1) = {}
  OBVIOUS
<1>2. \A i \in 1..n : (i + 1)..(n + 1) = (i + 1)..n \cup {n + 1}
  OBVIOUS
<1>3. ASSUME NEW m
      PROVE  InForce(h, n + 1, m) <=>
               IF h[n + 1].what = "mode" THEN h[n + 1].of = m ELSE InForce(h, n, m)
  BY <1>1, <1>2 DEF InForce, Does
<1>4. StillRevoked(h, n + 1, c) <=>
        \/ Does(h[n + 1], "revoke", c)
        \/ /\ StillRevoked(h, n, c)
           /\ ~ Does(h[n + 1], "grant", c) /\ h[n + 1].what # "reset"
  BY <1>1, <1>2 DEF StillRevoked
<1>5. StillGranted(h, n + 1, c) <=>
        \/ Does(h[n + 1], "grant", c)
        \/ /\ StillGranted(h, n, c)
           /\ ~ Does(h[n + 1], "revoke", c)
           /\ h[n + 1].what # "reset" /\ ~ StepsDown(h, n + 1)
  BY <1>1, <1>2 DEF StillGranted
<1> QED  BY <1>3, <1>4, <1>5

-----------------------------------------------------------------------------
(* The model's state is what the history says.                             *)

Entry == [what : {"mode", "grant", "revoke", "reset", "call"},
          of : Modes \cup Caps \cup {"all"}]

\* The inductive invariant: mode, grants and revocations are those in force.
FollowsHistory ==
  /\ \A m \in Modes : InForce(record, Len(record), m) <=> m = mode
  /\ \A c \in Caps : StillRevoked(record, Len(record), c) <=> c \in revoked
  /\ \A c \in Caps : StillGranted(record, Len(record), c) <=> c \in granted

CallsEntitled ==
  \A i \in DOMAIN record :
    record[i].what = "call" => LawfulAfter(record, i - 1, record[i].of)

PermInv == PermTypeOK /\ record \in Seq(Entry) /\ FollowsHistory /\ CallsEntitled

LEMMA PermittedIsLawful ==
  ASSUME PermInv, NEW c \in Caps
  PROVE  Permitted(c) <=> LawfulAfter(record, Len(record), c)
<1>1. c \in ModeCaps(mode) <=> TierOf(c) <= ModeTier[mode]
  BY DEF ModeCaps
<1>2. mode \in Modes
  BY DEF PermInv, PermTypeOK
<1>3. /\ \A m \in Modes : InForce(record, Len(record), m) <=> m = mode
      /\ StillRevoked(record, Len(record), c) <=> c \in revoked
      /\ StillGranted(record, Len(record), c) <=> c \in granted
  BY DEF PermInv, FollowsHistory
<1> QED  BY <1>1, <1>2, <1>3 DEF Permitted, LawfulAfter

\* What the history says once one entry more is recorded.
LEMMA Recorded ==
  ASSUME PermInv, NEW e \in Entry, record' = Append(record, e)
  PROVE  /\ record' \in Seq(Entry)
         /\ \A m \in Modes : InForce(record', Len(record'), m) <=>
                               IF e.what = "mode" THEN m = e.of ELSE m = mode
         /\ \A c \in Caps :
              /\ StillRevoked(record', Len(record'), c) <=>
                   \/ Does(e, "revoke", c)
                   \/ c \in revoked /\ ~ Does(e, "grant", c) /\ e.what # "reset"
              /\ StillGranted(record', Len(record'), c) <=>
                   \/ Does(e, "grant", c)
                   \/ /\ c \in granted /\ ~ Does(e, "revoke", c) /\ e.what # "reset"
                      /\ ~ (e.what = "mode" /\ ModeTier[e.of] < ModeTier[mode])
         /\ (e.what = "call" => LawfulAfter(record, Len(record), e.of)) => CallsEntitled'
<1> DEFINE n == Len(record)
<1>1. record \in Seq(Entry) /\ n \in Nat /\ DOMAIN record = 1..n
  BY DEF PermInv
<1>2. PICK g : g = record'
  OBVIOUS
<1>3. /\ g \in Seq(Entry) /\ Len(g) = n + 1 /\ DOMAIN g = 1..(n + 1)
      /\ g[n + 1] = e /\ \A i \in 1..n : g[i] = record[i]
  BY <1>1, <1>2
<1>4. Agree(g, record, n)
  BY <1>3 DEF Agree
<1>5. /\ \A m \in Modes : InForce(record, n, m) <=> m = mode
      /\ \A c \in Caps : StillRevoked(record, n, c) <=> c \in revoked
      /\ \A c \in Caps : StillGranted(record, n, c) <=> c \in granted
  BY DEF PermInv, FollowsHistory
<1> HIDE DEF n
<1>6. /\ \A m \in Modes : InForce(g, n, m) <=> m = mode
      /\ \A c \in Caps : StillRevoked(g, n, c) <=> c \in revoked
      /\ \A c \in Caps : StillGranted(g, n, c) <=> c \in granted
  BY <1>1, <1>4, <1>5, HistoryIsLocal
<1>7. \A m \in Modes : InForce(g, n + 1, m) <=>
                         IF e.what = "mode" THEN m = e.of ELSE m = mode
  BY <1>1, <1>3, <1>6, HistoryGrows
<1>8. StepsDown(g, n + 1) <=> e.what = "mode" /\ ModeTier[e.of] < ModeTier[mode]
  <2>1. (n + 1) - 1 = n /\ mode \in Modes
    BY <1>1 DEF PermInv, PermTypeOK
  <2> QED  BY <1>3, <1>6, <2>1 DEF StepsDown
<1>9. \A c \in Caps :
        /\ StillRevoked(g, n + 1, c) <=>
             \/ Does(e, "revoke", c)
             \/ c \in revoked /\ ~ Does(e, "grant", c) /\ e.what # "reset"
        /\ StillGranted(g, n + 1, c) <=>
             \/ Does(e, "grant", c)
             \/ /\ c \in granted /\ ~ Does(e, "revoke", c) /\ e.what # "reset"
                /\ ~ (e.what = "mode" /\ ModeTier[e.of] < ModeTier[mode])
  BY <1>1, <1>3, <1>6, <1>8, HistoryGrows
<1>10. ASSUME e.what = "call" => LawfulAfter(record, n, e.of) PROVE CallsEntitled'
  <2> SUFFICES ASSUME NEW i \in 1..(n + 1), g[i].what = "call"
               PROVE  LawfulAfter(g, i - 1, g[i].of)
    BY <1>2, <1>3 DEF CallsEntitled
  <2>1. i - 1 \in Nat /\ Agree(g, record, i - 1)
    BY <1>1, <1>3 DEF Agree
  <2>2. LawfulAfter(g, i - 1, g[i].of) <=> LawfulAfter(record, i - 1, g[i].of)
    BY <2>1, HistoryIsLocal
  <2>3. CASE i = n + 1
    BY <1>1, <1>3, <1>10, <2>2, <2>3
  <2>4. CASE i \in 1..n
    BY <1>1, <1>3, <2>2, <2>4 DEF PermInv, CallsEntitled
  <2> QED  BY <1>1, <2>3, <2>4
<1> QED  BY <1>2, <1>3, <1>7, <1>9, <1>10 DEF n

LEMMA PermInitInv == PermInit => PermInv
<1> SUFFICES ASSUME PermInit PROVE PermInv
  OBVIOUS
<1> DEFINE e == [what |-> "mode", of |-> mode]
<1>1. /\ mode \in Modes /\ granted = {} /\ revoked = {} /\ record = <<e>>
  BY DEF PermInit
<1>2. e \in Entry /\ e.what = "mode" /\ e.of = mode
  BY <1>1 DEF Entry
<1> HIDE DEF e
<1>3. record \in Seq(Entry) /\ Len(record) = 1 /\ record[1] = e /\ DOMAIN record = 1..1
  BY <1>1, <1>2
<1>4. PermTypeOK
  BY <1>1, <1>3, CapsAssumption DEF PermTypeOK
<1>5. FollowsHistory
  BY <1>1, <1>2, <1>3 DEF FollowsHistory, InForce, StillRevoked, StillGranted, Does
<1>6. CallsEntitled
  BY <1>2, <1>3 DEF CallsEntitled
<1> QED  BY <1>3, <1>4, <1>5, <1>6 DEF PermInv

\* One step per decision: what it does to modes, grants and revocations is what
\* its entry means.
LEMMA PermStepInv == PermInv /\ [PermNext]_permVars => PermInv'
<1> SUFFICES ASSUME PermInv, [PermNext]_permVars PROVE PermInv'
  OBVIOUS
<1>1. mode \in Modes /\ granted \subseteq Caps /\ revoked \subseteq Caps
  BY DEF PermInv, PermTypeOK
<1>2. ASSUME NEW what \in {"mode", "grant", "revoke", "reset", "call"},
             NEW of \in Modes \cup Caps \cup {"all"}, Happens(what, of)
      PROVE  /\ [what |-> what, of |-> of] \in Entry
             /\ record' = Append(record, [what |-> what, of |-> of])
             /\ Len(record') <= MaxRecord
  <2>1. [what |-> what, of |-> of] \in Entry
    BY DEF Entry
  <2>2. Len(record) \in Nat /\ Len(record) < MaxRecord
    BY <1>2 DEF Happens, PermInv
  <2>3. record' = Append(record, [what |-> what, of |-> of])
    BY <1>2 DEF Happens
  <2>4. Len(record') = Len(record) + 1
    BY <2>1, <2>3 DEF PermInv
  <2> QED  BY <2>1, <2>2, <2>3, <2>4, CapsAssumption
<1>3. ASSUME NEW m \in Modes, SetMode(m) PROVE PermInv'
  <2> DEFINE e == [what |-> "mode", of |-> m]
  <2>1. e \in Entry /\ record' = Append(record, e) /\ Len(record') <= MaxRecord
    BY <1>2, <1>3 DEF SetMode
  <2>2. e.what = "mode" /\ e.of = m
    OBVIOUS
  <2> HIDE DEF e
  <2>3. mode' = m /\ revoked' = revoked
        /\ granted' = IF ModeTier[m] < ModeTier[mode] THEN {} ELSE granted
    BY <1>3 DEF SetMode
  <2>4. FollowsHistory'
    BY <1>1, <2>1, <2>2, <2>3, Recorded DEF FollowsHistory, Does
  <2>5. record' \in Seq(Entry) /\ CallsEntitled'
    BY <2>1, <2>2, Recorded
  <2> QED  BY <1>1, <2>1, <2>3, <2>4, <2>5 DEF PermInv, PermTypeOK
<1>4. ASSUME NEW c \in Caps, Grant(c) PROVE PermInv'
  <2> DEFINE e == [what |-> "grant", of |-> c]
  <2>1. e \in Entry /\ record' = Append(record, e) /\ Len(record') <= MaxRecord
    BY <1>2, <1>4 DEF Grant
  <2>2. e.what = "grant" /\ e.of = c
    OBVIOUS
  <2> HIDE DEF e
  <2>3. mode' = mode /\ granted' = granted \cup {c} /\ revoked' = revoked \ {c}
    BY <1>4 DEF Grant
  <2>4. FollowsHistory'
    BY <1>1, <2>1, <2>2, <2>3, Recorded DEF FollowsHistory, Does
  <2>5. record' \in Seq(Entry) /\ CallsEntitled'
    BY <2>1, <2>2, Recorded
  <2> QED  BY <1>1, <2>1, <2>3, <2>4, <2>5 DEF PermInv, PermTypeOK
<1>5. ASSUME NEW c \in Caps, Revoke(c) PROVE PermInv'
  <2> DEFINE e == [what |-> "revoke", of |-> c]
  <2>1. e \in Entry /\ record' = Append(record, e) /\ Len(record') <= MaxRecord
    BY <1>2, <1>5 DEF Revoke
  <2>2. e.what = "revoke" /\ e.of = c
    OBVIOUS
  <2> HIDE DEF e
  <2>3. mode' = mode /\ granted' = granted \ {c} /\ revoked' = revoked \cup {c}
    BY <1>5 DEF Revoke
  <2>4. FollowsHistory'
    BY <1>1, <2>1, <2>2, <2>3, Recorded DEF FollowsHistory, Does
  <2>5. record' \in Seq(Entry) /\ CallsEntitled'
    BY <2>1, <2>2, Recorded
  <2> QED  BY <1>1, <2>1, <2>3, <2>4, <2>5 DEF PermInv, PermTypeOK
<1>6. CASE ResetGrants
  <2> DEFINE e == [what |-> "reset", of |-> "all"]
  <2>1. e \in Entry /\ record' = Append(record, e) /\ Len(record') <= MaxRecord
    BY <1>2, <1>6 DEF ResetGrants
  <2>2. e.what = "reset"
    OBVIOUS
  <2> HIDE DEF e
  <2>3. mode' = mode /\ granted' = {} /\ revoked' = {}
    BY <1>6 DEF ResetGrants
  <2>4. FollowsHistory'
    BY <1>1, <2>1, <2>2, <2>3, Recorded DEF FollowsHistory, Does
  <2>5. record' \in Seq(Entry) /\ CallsEntitled'
    BY <2>1, <2>2, Recorded
  <2> QED  BY <1>1, <2>1, <2>3, <2>4, <2>5 DEF PermInv, PermTypeOK
<1>7. ASSUME NEW c \in Caps, ApiCall(c) PROVE PermInv'
  <2> DEFINE e == [what |-> "call", of |-> c]
  <2>1. e \in Entry /\ record' = Append(record, e) /\ Len(record') <= MaxRecord
    BY <1>2, <1>7 DEF ApiCall
  <2>2. e.what = "call" /\ e.of = c
    OBVIOUS
  <2> HIDE DEF e
  <2>3. UNCHANGED <<mode, granted, revoked>>
    BY <1>7 DEF ApiCall
  <2>4. LawfulAfter(record, Len(record), c)
    BY <1>7, PermittedIsLawful DEF ApiCall
  <2>5. FollowsHistory'
    BY <1>1, <2>1, <2>2, <2>3, Recorded DEF FollowsHistory, Does
  <2>6. record' \in Seq(Entry) /\ CallsEntitled'
    BY <2>1, <2>2, <2>4, Recorded
  <2> QED  BY <1>1, <2>1, <2>3, <2>5, <2>6 DEF PermInv, PermTypeOK
<1>8. CASE UNCHANGED permVars
  BY <1>8 DEF permVars, PermInv, PermTypeOK, FollowsHistory, CallsEntitled
<1> QED  BY <1>3, <1>4, <1>5, <1>6, <1>7, <1>8 DEF PermNext

\* What check() allows, what is listed and every call that went through follow the
\* history of modes, grants, revocations and resets.
THEOREM EntitledAlways == PermSpec => []EntitledByHistory
<1>1. PermInv => EntitledByHistory
  <2> SUFFICES ASSUME PermInv PROVE EntitledByHistory
    OBVIOUS
  <2>1. \A c \in Caps : Permitted(c) <=> LawfulAfter(record, Len(record), c)
    BY PermittedIsLawful
  <2>2. \A c \in Caps : Permitted(c) <=> c \in AllowedCapabilities
    BY DEF Permitted, AllowedCapabilities
  <2>3. CallsEntitled
    BY DEF PermInv
  <2> QED  BY <2>1, <2>2, <2>3 DEF EntitledByHistory, CallsEntitled
<1> QED  BY <1>1, PermInitInv, PermStepInv, PTL DEF PermSpec

\* Nothing is granted or revoked that is not a capability of the permission model,
\* and the mode is one of those it knows: permissions.py.
THEOREM PermTypeCorrect == PermSpec => []PermTypeOK
<1>1. PermInv => PermTypeOK  BY DEF PermInv
<1> QED  BY <1>1, PermInitInv, PermStepInv, PTL DEF PermSpec

-----------------------------------------------------------------------------
(* Escalations.                                                            *)

\* The shape of the state.
Request ==
  [at : {"prompt", "approved", "ran", "listed", "granted"}, id : Nat, of : Asked, runs : BOOLEAN]
Result == {"denied", "declined", "approved", "executed", "failed"}
Decision == [what : {"mode", "grant", "revoke", "reset", "call"},
             of : Modes \cup Caps \cup Asked \cup {"all"}]
AuditEntry == Asked \X {"refused", "approved", "executed", "failed"}
Shape ==
  /\ request \in [Requesters -> {Idle} \cup Request]
  /\ asked \in Nat
  /\ trail \in Seq(Nat \X Result \X Asked)
  /\ record \in Seq(Decision)
  /\ audit \in Seq(AuditEntry)

\* Entries are only ever added, to the trail, the record and the audit.
Longer(s, t) == DOMAIN s \subseteq DOMAIN t /\ \A i \in DOMAIN s : t[i] = s[i]

LEMMA AppendsLonger ==
  ASSUME NEW S, NEW s \in Seq(S), NEW e \in S
  PROVE  Append(s, e) \in Seq(S) /\ Longer(s, Append(s, e))
BY DEF Longer

LEMMA SameLonger ==
  ASSUME NEW s
  PROVE  Longer(s, s)
BY DEF Longer

\* What an escalation needs of AURA's request as it waits for the operator and
\* after: the first two of the three are asked before, and the host stays
\* what it is.
Lawful(c) == MayAsk(c) /\ c \in OverrideableActions
Confirmed(c) == \E i \in DOMAIN trail : trail[i][2] = "approved" /\ trail[i][3] = c
Granted(c) == \E i \in DOMAIN record : record[i] = [what |-> "grant", of |-> c]

Audited(c) == \E i \in DOMAIN audit : audit[i] = <<c, "executed">>

InStep5 == {"listed", "granted"}
Waits(c) == Escalating(c, {"prompt", "approved"} \cup InStep5)
Answered(c) == Escalating(c, {"approved"} \cup InStep5)
EscInv ==
  /\ Shape /\ escalated \subseteq Asked
  /\ \A c \in Asked :
       /\ Waits(c) => Lawful(c)
       /\ Answered(c) => Confirmed(c)
       /\ Escalating(c, {"granted"}) => Granted(c)
       /\ c \in escalated =>
            /\ Lawful(c) /\ Confirmed(c)
            /\ Escalating(c, {"listed"}) \/ Granted(c)
            /\ Escalating(c, InStep5) \/ Audited(c)

LEMMA LongerKeeps ==
  ASSUME Longer(trail, trail'), Longer(record, record'), Longer(audit, audit'), host' = host, NEW c
  PROVE  /\ Lawful(c) => Lawful(c)'
         /\ Confirmed(c) => Confirmed(c)'
         /\ Granted(c) => Granted(c)'
         /\ Audited(c) => Audited(c)'
BY DEF Longer, Lawful, MayAsk, Confirmed, Granted, Audited

\* _audit() adds to the audit, and says what was done.
LEMMA AuditsRecords ==
  ASSUME Shape, NEW c \in Asked, NEW r \in {"refused", "approved", "executed", "failed"},
         Audits(c, r)
  PROVE  /\ audit' \in Seq(AuditEntry) /\ Longer(audit, audit')
         /\ r = "executed" => Audited(c)'
<1> DEFINE e == <<c, r>>
<1>1. e \in AuditEntry /\ (r = "executed" => e = <<c, "executed">>)
  BY DEF AuditEntry
<1>2. audit' = Append(audit, e) /\ audit \in Seq(AuditEntry)
  BY DEF Audits, Shape
<1> HIDE DEF e
<1>3. Len(audit) + 1 \in DOMAIN audit' /\ audit'[Len(audit) + 1] = e
  BY <1>1, <1>2
<1> QED  BY <1>1, <1>2, <1>3, AppendsLonger DEF Audited

LEMMA RecordsResult ==
  ASSUME Shape, NEW who \in Requesters, NEW result \in Result, request[who] # Idle,
         NEW c, c = request[who].of, RecordResult(request[who].id, result, c)
  PROVE  /\ trail' \in Seq(Nat \X Result \X Asked) /\ Longer(trail, trail')
         /\ result = "approved" => Confirmed(c)'
<1>1. request[who] \in Request  BY DEF Shape
<1> DEFINE e == <<request[who].id, result, c>>
<1>2. e \in Nat \X Result \X Asked /\ e[2] = result /\ e[3] = c
  BY <1>1 DEF Request
<1>3. trail' = Append(trail, e) /\ trail \in Seq(Nat \X Result \X Asked)
  BY DEF RecordResult, Shape
<1> HIDE DEF e
<1>4. trail' \in Seq(Nat \X Result \X Asked) /\ Longer(trail, trail')
  BY <1>2, <1>3, AppendsLonger
<1>5. Len(trail) + 1 \in DOMAIN trail' /\ trail'[Len(trail) + 1] = e
  BY <1>2, <1>3
<1> QED  BY <1>2, <1>4, <1>5 DEF Confirmed

\* The permission model only adds to its record, and a grant is in it.
LEMMA HappensRecords ==
  ASSUME Shape, NEW what \in {"mode", "grant", "revoke", "reset", "call"},
         NEW of \in Modes \cup Caps \cup Asked \cup {"all"}, Happens(what, of)
  PROVE  /\ record' \in Seq(Decision) /\ Longer(record, record')
         /\ what = "grant" => Granted(of)'
<1> DEFINE e == [what |-> what, of |-> of]
<1>1. e \in Decision
  BY DEF Decision
<1>2. record' = Append(record, e)
  BY DEF Happens
<1>3. what = "grant" => e = [what |-> "grant", of |-> of]
  OBVIOUS
<1> HIDE DEF e
<1>4. Len(record) + 1 \in DOMAIN record' /\ record'[Len(record) + 1] = e
  BY <1>1, <1>2 DEF Shape
<1> QED  BY <1>1, <1>2, <1>3, <1>4, AppendsLonger DEF Shape, Granted

LEMMA PermRecords ==
  ASSUME Shape, PermNext
  PROVE  record' \in Seq(Decision) /\ Longer(record, record')
<1>1. ASSUME NEW m \in Modes, SetMode(m) PROVE Happens("mode", m)  BY <1>1 DEF SetMode
<1>2. ASSUME NEW c \in Caps, Grant(c) PROVE Happens("grant", c)  BY <1>2 DEF Grant
<1>3. ASSUME NEW c \in Caps, Revoke(c) PROVE Happens("revoke", c)  BY <1>3 DEF Revoke
<1>4. ASSUME NEW c \in Caps, ApiCall(c) PROVE Happens("call", c)  BY <1>4 DEF ApiCall
<1>5. ASSUME ResetGrants PROVE Happens("reset", "all")  BY <1>5 DEF ResetGrants
<1> QED  BY <1>1, <1>2, <1>3, <1>4, <1>5, HappensRecords DEF PermNext

-----------------------------------------------------------------------------
\* What a step outside step 5 must show to keep the invariant: only what AURA's
\* request is new in.
Undisturbed ==
  /\ request["AURA"].at \in InStep5 => request'["AURA"] = request["AURA"]
  /\ request'["AURA"].at \in InStep5 => request'["AURA"] = request["AURA"]

LEMMA Keeps ==
  ASSUME EscInv, Shape', Longer(trail, trail'), Longer(record, record'), Longer(audit, audit'),
         host' = host, escalated' = escalated, Undisturbed,
         \A c \in Asked :
           /\ Waits(c)' => Waits(c) \/ Lawful(c)
           /\ Answered(c)' => Answered(c) \/ Confirmed(c)'
  PROVE  EscInv'
<1> SUFFICES ASSUME NEW c \in Asked
             PROVE  /\ Waits(c)' => Lawful(c)'
                    /\ Answered(c)' => Confirmed(c)'
                    /\ Escalating(c, {"granted"})' => Granted(c)'
                    /\ c \in escalated' =>
                         /\ Lawful(c)' /\ Confirmed(c)'
                         /\ Escalating(c, {"listed"})' \/ Granted(c)'
                         /\ Escalating(c, InStep5)' \/ Audited(c)'
  BY DEF EscInv
<1>1. /\ Lawful(c) => Lawful(c)'
      /\ Confirmed(c) => Confirmed(c)'
      /\ Granted(c) => Granted(c)'
      /\ Audited(c) => Audited(c)'
  BY LongerKeeps
<1>2. /\ Waits(c) => Lawful(c)
      /\ Answered(c) => Confirmed(c)
      /\ Escalating(c, {"granted"}) => Granted(c)
      /\ c \in escalated => /\ Lawful(c) /\ Confirmed(c)
                            /\ Escalating(c, {"listed"}) \/ Granted(c)
                            /\ Escalating(c, InStep5) \/ Audited(c)
  BY DEF EscInv
<1>3. /\ Escalating(c, {"granted"})' => Escalating(c, {"granted"})
      /\ Escalating(c, {"listed"}) => Escalating(c, {"listed"})'
      /\ Escalating(c, InStep5) => Escalating(c, InStep5)'
  BY DEF Undisturbed, Escalating, InStep5
<1> QED  BY <1>1, <1>2, <1>3

\* A request that moves leaves the other's as it is.
LEMMA RequestMoves ==
  ASSUME Shape, NEW who \in Requesters, NEW r \in {Idle} \cup Request,
         request' = [request EXCEPT ![who] = r]
  PROVE  /\ request' \in [Requesters -> {Idle} \cup Request] /\ request'[who] = r
         /\ who # "AURA" => request'["AURA"] = request["AURA"]
BY DEF Shape, Requesters

LEMMA AskStep ==
  ASSUME EscInv, NEW who \in Requesters, NEW c \in Asked, NEW flaw, NEW runs \in BOOLEAN,
         Ask(who, c, flaw, runs)
  PROVE  EscInv'
<1>1. Shape /\ asked' \in Nat /\ request[who] = Idle /\ UNCHANGED <<record, host, escalated>>
  BY DEF EscInv, Shape, Ask, permVars, hostVars
<1>2. Longer(record, record')  BY <1>1, SameLonger
<1>3. CASE Validates(c, flaw)
  <2> DEFINE r == [at |-> "prompt", id |-> asked + 1, of |-> c, runs |-> runs]
  <2>1. r \in Request  BY <1>1 DEF Request, Shape
  <2>2. request' = [request EXCEPT ![who] = r] /\ trail' = trail /\ audit' = audit
    BY <1>3 DEF Ask
  <2>3. who = "AURA" => Lawful(c)
    BY <1>3 DEF Ask, Validates, Lawful
  <2>4. r.at = "prompt" /\ r.of = c
    OBVIOUS
  <2> HIDE DEF r
  <2>5. Shape'  BY <1>1, <2>1, <2>2, RequestMoves DEF Shape
  <2>6. Longer(trail, trail') /\ Longer(audit, audit')  BY <2>2, SameLonger
  <2>7. request'[who] = r /\ (who # "AURA" => request'["AURA"] = request["AURA"])
    BY <1>1, <2>1, <2>2, RequestMoves
  <2>8. \A d \in Asked :
          /\ Waits(d)' => Waits(d) \/ Lawful(d)
          /\ Answered(d)' => Answered(d)
    BY <2>3, <2>4, <2>7 DEF Waits, Answered, Escalating, InStep5
  <2>9. Undisturbed
    BY <1>1, <2>4, <2>7 DEF Undisturbed, InStep5, Idle
  <2> QED  BY <1>1, <1>2, <2>5, <2>6, <2>8, <2>9, Keeps
<1>4. CASE ~ Validates(c, flaw)
  <2>1. RecordResult(asked + 1, "denied", c) /\ UNCHANGED request
    BY <1>4 DEF Ask
  <2>2. trail' \in Seq(Nat \X Result \X Asked) /\ Longer(trail, trail')
    <3>1. <<asked + 1, "denied", c>> \in Nat \X Result \X Asked  BY <1>1 DEF Result, Shape
    <3> QED  BY <1>1, <2>1, <3>1, AppendsLonger DEF RecordResult, Shape
  <2>3. audit' \in Seq(AuditEntry) /\ Longer(audit, audit')
    <3>1. Audits(c, "refused") \/ audit' = audit  BY <1>4 DEF Ask
    <3> QED  BY <1>1, <3>1, AuditsRecords, SameLonger DEF Shape
  <2>4. Shape'  BY <1>1, <2>1, <2>2, <2>3 DEF Shape
  <2>5. \A d \in Asked : (Waits(d)' => Waits(d)) /\ (Answered(d)' => Answered(d))
    BY <2>1 DEF Waits, Answered, Escalating
  <2>6. Undisturbed  BY <2>1 DEF Undisturbed
  <2> QED  BY <1>1, <1>2, <2>2, <2>3, <2>4, <2>5, <2>6, Keeps
<1> QED  BY <1>3, <1>4

\* The operator's answer, and what runs after it.
LEMMA AnswerStep ==
  ASSUME EscInv, NEW who \in Requesters,
         Decline(who) \/ Approve(who) \/ Execute(who) \/ Executed(who)
  PROVE  EscInv'
<1>1. /\ Shape /\ request[who] # Idle /\ request[who] \in Request
      /\ request[who].at \notin InStep5
      /\ UNCHANGED <<asked, record, host, escalated>>
  BY DEF EscInv, Shape, Decline, Approve, Execute, Executed, permVars, hostVars, Idle, InStep5
<1>2. Longer(record, record')  BY <1>1, SameLonger
<1>3. PICK c \in Asked : c = request[who].of  BY <1>1 DEF Request
<1>4. CASE Decline(who) \/ Executed(who)
  <2>1. PICK result \in Result : RecordResult(request[who].id, result, c)
    BY <1>3, <1>4 DEF Decline, Executed, Result
  <2>2. request' = [request EXCEPT ![who] = Idle]  BY <1>4 DEF Decline, Executed
  <2>3. request' \in [Requesters -> {Idle} \cup Request] /\ request'[who] = Idle
        /\ (who # "AURA" => request'["AURA"] = request["AURA"])
    BY <1>1, <2>2, RequestMoves
  <2>4. trail' \in Seq(Nat \X Result \X Asked) /\ Longer(trail, trail')
    BY <1>1, <1>3, <2>1, RecordsResult
  <2>5. audit' \in Seq(AuditEntry) /\ Longer(audit, audit')
    <3>1. Audits(c, "refused") \/ audit' = audit  BY <1>3, <1>4 DEF Decline, Executed
    <3> QED  BY <1>1, <3>1, AuditsRecords, SameLonger DEF Shape
  <2>6. Shape'  BY <1>1, <2>3, <2>4, <2>5 DEF Shape
  <2>7. \A d \in Asked : (Waits(d)' => Waits(d)) /\ (Answered(d)' => Answered(d))
    BY <2>3 DEF Waits, Answered, Escalating, InStep5, Idle
  <2>8. Undisturbed  BY <1>1, <2>3 DEF Undisturbed, InStep5, Idle
  <2> QED  BY <1>1, <1>2, <2>4, <2>5, <2>6, <2>7, <2>8, Keeps
<1>5. CASE Approve(who)
  <2>1. RecordResult(request[who].id, "approved", c)
    BY <1>3, <1>5 DEF Approve
  <2>2. trail' \in Seq(Nat \X Result \X Asked) /\ Longer(trail, trail') /\ Confirmed(c)'
    BY <1>1, <1>3, <2>1, RecordsResult DEF Result
  <2> DEFINE r == [request[who] EXCEPT !.at = "approved"]
  <2>3. r \in Request /\ r.at = "approved" /\ r.of = c  BY <1>1, <1>3 DEF Request
  <2>4. request' = [request EXCEPT ![who] = r] \/ request' = [request EXCEPT ![who] = Idle]
    BY <1>1, <1>5 DEF Approve, Shape
  <2>5. request[who].at = "prompt"  BY <1>5 DEF Approve
  <2> HIDE DEF r
  <2>6. /\ request' \in [Requesters -> {Idle} \cup Request] /\ request'[who] \in {r, Idle}
        /\ who # "AURA" => request'["AURA"] = request["AURA"]
    BY <1>1, <2>3, <2>4, RequestMoves
  <2>7. audit' = audit /\ Longer(audit, audit')  BY <1>5, SameLonger DEF Approve
  <2>9. Shape'  BY <1>1, <2>2, <2>6, <2>7 DEF Shape
  <2>10. Undisturbed  BY <1>1, <2>3, <2>6 DEF Undisturbed, InStep5, Idle
  <2>8. \A d \in Asked : (Waits(d)' => Waits(d)) /\ (Answered(d)' => Answered(d) \/ Confirmed(d)')
    <3>1. CASE who = "AURA"
      <4>1. \A d \in Asked : Waits(d)' \/ Answered(d)' => d = c /\ Waits(d)
        BY <1>3, <2>3, <2>5, <2>6, <3>1 DEF Waits, Answered, Escalating, InStep5, Idle
      <4> QED  BY <2>2, <4>1
    <3>2. CASE who # "AURA"  BY <2>6, <3>2 DEF Waits, Answered, Escalating
    <3> QED  BY <3>1, <3>2
  <2> QED  BY <1>1, <1>2, <2>2, <2>7, <2>8, <2>9, <2>10, Keeps
<1>6. CASE Execute(who)
  <2> DEFINE r == [request[who] EXCEPT !.at = "ran"]
  <2>1. r \in Request /\ r.at = "ran"  BY <1>1 DEF Request
  <2>2. request' = [request EXCEPT ![who] = r] /\ trail' = trail /\ audit' = audit
    BY <1>1, <1>6 DEF Execute, Shape
  <2> HIDE DEF r
  <2>3. /\ request' \in [Requesters -> {Idle} \cup Request] /\ request'[who] = r
        /\ who # "AURA" => request'["AURA"] = request["AURA"]
    BY <1>1, <2>1, <2>2, RequestMoves
  <2>4. Shape'  BY <1>1, <2>2, <2>3 DEF Shape
  <2>5. Longer(trail, trail') /\ Longer(audit, audit')  BY <2>2, SameLonger
  <2>6. \A d \in Asked : (Waits(d)' => Waits(d)) /\ (Answered(d)' => Answered(d))
    BY <2>1, <2>3 DEF Waits, Answered, Escalating, InStep5
  <2>7. Undisturbed  BY <1>1, <2>1, <2>3 DEF Undisturbed, InStep5
  <2> QED  BY <1>1, <1>2, <2>4, <2>5, <2>6, <2>7, Keeps
<1> QED  BY <1>4, <1>5, <1>6

\* Step 5: what was confirmed is listed, then in the permission model's record,
\* then in the audit.
LEMMA EscalateStep ==
  ASSUME EscInv, Escalate
  PROVE  EscInv'
<1>1. /\ Shape /\ request["AURA"].at \in {"approved"} \cup InStep5
      /\ UNCHANGED <<host, asked, trail>>
  BY DEF EscInv, Escalate, EscalationListed, EscalationGranted, EscalationAudited, hostVars, InStep5
<1>2. request["AURA"] \in Request
  BY <1>1 DEF Shape, Requesters, Idle, InStep5
<1>3. PICK c \in Asked : c = request["AURA"].of  BY <1>2 DEF Request
<1>4. Longer(trail, trail')  BY <1>1, SameLonger
<1>5. Lawful(c) /\ Confirmed(c)
  BY <1>1, <1>3 DEF EscInv, Waits, Answered, Escalating
<1>6. \A d \in Asked : d # c => ~ \E points : Escalating(d, points)
  BY <1>3 DEF Escalating
<1>7. \A d \in Asked :
        d \in escalated =>
          /\ Lawful(d) /\ Confirmed(d)
          /\ d # c => Granted(d) /\ Audited(d)
  BY <1>6 DEF EscInv
<1>8. CASE EscalationListed
  <2> DEFINE r == [request["AURA"] EXCEPT !.at = "listed"]
  <2>1. r \in Request /\ r.at = "listed" /\ r.of = c  BY <1>2, <1>3 DEF Request
  <2>2. request' = [request EXCEPT !["AURA"] = r]
    BY <1>8 DEF EscalationListed
  <2> HIDE DEF r
  <2>3. request' \in [Requesters -> {Idle} \cup Request] /\ request'["AURA"] = r
    BY <1>1, <2>1, <2>2, RequestMoves DEF Requesters
  <2>4. escalated' = escalated \cup {c} /\ UNCHANGED <<record, audit>>
    BY <1>3, <1>8 DEF EscalationListed, permVars
  <2>5. Longer(record, record') /\ Longer(audit, audit')  BY <2>4, SameLonger
  <2>6. Shape'  BY <1>1, <2>3, <2>4 DEF Shape
  <2>7. \A d \in Asked : \A points : Escalating(d, points)' => d = c
    BY <2>1, <2>3 DEF Escalating
  <2>8. Escalating(c, {"listed"})' /\ Escalating(c, InStep5)' /\ ~ Escalating(c, {"granted"})'
    BY <2>1, <2>3 DEF Escalating, InStep5
  <2>9. ASSUME NEW d \in Asked
        PROVE  /\ Waits(d)' => Lawful(d)'
               /\ Answered(d)' => Confirmed(d)'
               /\ Escalating(d, {"granted"})' => Granted(d)'
               /\ d \in escalated' => /\ Lawful(d)' /\ Confirmed(d)'
                                      /\ Escalating(d, {"listed"})' \/ Granted(d)'
                                      /\ Escalating(d, InStep5)' \/ Audited(d)'
    BY <1>1, <1>4, <1>5, <1>7, <2>4, <2>5, <2>7, <2>8, LongerKeeps DEF Waits, Answered
  <2>10. escalated' \subseteq Asked  BY <1>3, <2>4 DEF EscInv
  <2> QED  BY <2>6, <2>9, <2>10 DEF EscInv
<1>9. CASE EscalationGranted
  <2> DEFINE r == [request["AURA"] EXCEPT !.at = "granted"]
  <2>1. r \in Request /\ r.at = "granted" /\ r.of = c  BY <1>2, <1>3 DEF Request
  <2>2. request' = [request EXCEPT !["AURA"] = r]
    BY <1>9 DEF EscalationGranted
  <2> HIDE DEF r
  <2>3. request' \in [Requesters -> {Idle} \cup Request] /\ request'["AURA"] = r
    BY <1>1, <2>1, <2>2, RequestMoves DEF Requesters
  <2>4. Grant(c) /\ UNCHANGED <<escalated, audit>>
    BY <1>3, <1>9 DEF EscalationGranted
  <2>5. record' \in Seq(Decision) /\ Longer(record, record') /\ Granted(c)'
    BY <1>1, <2>4, HappensRecords DEF Grant
  <2>6. Longer(audit, audit')  BY <2>4, SameLonger
  <2>7. Shape'  BY <1>1, <2>3, <2>4, <2>5 DEF Shape
  <2>8. \A d \in Asked : \A points : Escalating(d, points)' => d = c
    BY <2>1, <2>3 DEF Escalating
  <2>9. Escalating(c, InStep5)'
    BY <2>1, <2>3 DEF Escalating, InStep5
  <2>10. ASSUME NEW d \in Asked
         PROVE  /\ Waits(d)' => Lawful(d)'
                /\ Answered(d)' => Confirmed(d)'
                /\ Escalating(d, {"granted"})' => Granted(d)'
                /\ d \in escalated' => /\ Lawful(d)' /\ Confirmed(d)'
                                       /\ Escalating(d, {"listed"})' \/ Granted(d)'
                                       /\ Escalating(d, InStep5)' \/ Audited(d)'
    BY <1>1, <1>4, <1>5, <1>7, <2>4, <2>5, <2>6, <2>8, <2>9, LongerKeeps DEF Waits, Answered
  <2>11. escalated' \subseteq Asked  BY <2>4 DEF EscInv
  <2> QED  BY <2>7, <2>10, <2>11 DEF EscInv
<1>10. CASE EscalationAudited
  <2>1. Audits(c, "executed") /\ request' = [request EXCEPT !["AURA"] = Idle]
        /\ UNCHANGED <<record, escalated>>
    BY <1>3, <1>10 DEF EscalationAudited, permVars
  <2>2. audit' \in Seq(AuditEntry) /\ Longer(audit, audit') /\ Audited(c)'
    BY <1>1, <2>1, AuditsRecords
  <2>3. request' \in [Requesters -> {Idle} \cup Request] /\ request'["AURA"] = Idle
    BY <1>1, <2>1, RequestMoves DEF Requesters
  <2>4. Longer(record, record')  BY <2>1, SameLonger
  <2>5. Shape'  BY <1>1, <2>1, <2>2, <2>3 DEF Shape
  <2>6. \A d \in Asked : /\ ~ Waits(d)' /\ ~ Answered(d)' /\ ~ Escalating(d, {"granted"})'
    BY <2>3 DEF Waits, Answered, Escalating, InStep5, Idle
  <2>7. c \in escalated => Granted(c)
    <3>1. Escalating(c, {"granted"})  BY <1>3, <1>10 DEF EscalationAudited, Escalating
    <3> QED  BY <3>1 DEF EscInv
  <2>8. ASSUME NEW d \in Asked, d \in escalated'
        PROVE  Lawful(d)' /\ Confirmed(d)' /\ Granted(d)' /\ Audited(d)'
    <3>1. Lawful(d) /\ Confirmed(d) /\ Granted(d)  BY <1>7, <2>1, <2>7, <2>8
    <3>2. d = c \/ Audited(d)  BY <1>7, <2>1, <2>8
    <3> QED  BY <1>1, <1>4, <2>2, <2>4, <3>1, <3>2, LongerKeeps
  <2>9. escalated' \subseteq Asked  BY <2>1 DEF EscInv
  <2> QED  BY <2>5, <2>6, <2>8, <2>9 DEF EscInv
<1> QED  BY <1>8, <1>9, <1>10 DEF Escalate

\* The rest leaves requests, trail and escalations alone.
LEMMA OtherStep ==
  ASSUME EscInv, UNCHANGED <<host, request, asked, trail, escalated>>,
         record' = record \/ PermNext, audit' \in Seq(AuditEntry), Longer(audit, audit')
  PROVE  EscInv'
<1>1. record' \in Seq(Decision) /\ Longer(record, record')
  BY PermRecords, SameLonger DEF EscInv, Shape
<1>2. Shape'  BY <1>1 DEF EscInv, Shape
<1>3. Longer(trail, trail')  BY SameLonger
<1>4. \A d \in Asked : (Waits(d)' => Waits(d)) /\ (Answered(d)' => Answered(d))
  BY DEF Waits, Answered, Escalating
<1>5. Undisturbed  BY DEF Undisturbed
<1> QED  BY <1>1, <1>2, <1>3, <1>4, <1>5, Keeps

LEMMA AuraAudits ==
  ASSUME Shape, NEW c \in Asked, EscalationRefused(c) \/ ExecuteAsVirtualRoot(c)
  PROVE  audit' \in Seq(AuditEntry) /\ Longer(audit, audit')
<1>1. CASE EscalationRefused(c)
  BY <1>1, AuditsRecords DEF EscalationRefused
<1>2. CASE ExecuteAsVirtualRoot(c)
  <2>1. PICK result \in {"executed", "failed"} :
          audit' = audit \o <<<<c, "approved">>, <<c, result>>>>
    BY <1>2 DEF ExecuteAsVirtualRoot
  <2>2. PICK a \in AuditEntry : a = <<c, "approved">>  BY DEF AuditEntry
  <2>3. PICK b \in AuditEntry : b = <<c, result>>  BY DEF AuditEntry
  <2>4. audit' = audit \o <<a, b>> /\ audit \in Seq(AuditEntry)
    BY <2>1, <2>2, <2>3 DEF Shape
  <2> QED  BY <2>4 DEF Longer
<1> QED  BY <1>1, <1>2

LEMMA EscStep == EscInv /\ [OverrideNext]_overrideVars => EscInv'
<1> SUFFICES ASSUME EscInv, [OverrideNext]_overrideVars PROVE EscInv'
  OBVIOUS
<1>1. CASE \E who \in Requesters : \E c \in Asked, flaw \in {"none", "protected path", "blank reason"},
             runs \in BOOLEAN : Ask(who, c, flaw, runs)
  BY <1>1, AskStep
<1>2. CASE \E who \in Requesters : Decline(who) \/ Approve(who) \/ Execute(who) \/ Executed(who)
  BY <1>2, AnswerStep
<1>3. CASE PermNext /\ UNCHANGED <<hostVars, request, asked, trail, ran, escalated, audit>>
  BY <1>3, OtherStep, SameLonger DEF hostVars, EscInv, Shape
<1>4. CASE \E c \in Asked : EscalationRefused(c) \/ ExecuteAsVirtualRoot(c)
  <2>1. UNCHANGED <<host, request, asked, trail, escalated, record>>
    BY <1>4 DEF EscalationRefused, ExecuteAsVirtualRoot, permVars, hostVars
  <2> QED  BY <1>4, <2>1, AuraAudits, OtherStep DEF EscInv
<1>5. CASE UNCHANGED overrideVars
  BY <1>5, OtherStep, SameLonger DEF overrideVars, permVars, hostVars, EscInv, Shape
<1> QED  BY <1>1, <1>2, <1>3, <1>4, <1>5, EscalateStep DEF OverrideNext

LEMMA EscInit == OverrideInit => EscInv
<1> SUFFICES ASSUME OverrideInit PROVE EscInv
  OBVIOUS
<1>1. record \in Seq(Decision)
  <2>1. mode \in Modes /\ record = <<[what |-> "mode", of |-> mode]>>
    BY DEF OverrideInit, PermInit
  <2>2. [what |-> "mode", of |-> mode] \in Decision  BY <2>1 DEF Decision
  <2> QED  BY <2>1, <2>2
<1>2. audit \in Seq(AuditEntry) /\ request["AURA"] = Idle /\ escalated = {}  BY DEF OverrideInit, Requesters
<1>3. Shape  BY <1>1, <1>2 DEF OverrideInit, Shape
<1> QED  BY <1>2, <1>3 DEF EscInv, Waits, Answered, Escalating, InStep5, Idle

\* Whatever AURA has escalated to was eligible, let pass by the host and
\* confirmed by the operator, and granted and audited by the time the call that
\* lists it is over: privilege.py:196-284, override.py:126-165,
\* mirror.py:233-265.
THEOREM EscalationsConfirmedAlways == OverrideSpec => []EscalationsConfirmed
<1>1. EscInv => EscalationsConfirmed
  BY DEF EscInv, EscalationsConfirmed, Lawful, MayAsk, Confirmed, Granted, Audited, InStep5,
         HostDenies
<1> QED  BY <1>1, EscInit, EscStep, PTL DEF OverrideSpec

-----------------------------------------------------------------------------
(* The trail: what each request has left in it.                            *)

\* The inductive invariant: a request under way has a number of its own, nothing in
\* the trail while it waits for the operator, and its approval after that.
Numbered ==
  /\ \A i \in DOMAIN trail : trail[i][1] \in 1..asked
  /\ \A who \in Requesters : request[who] # Idle => request[who].id \in 1..asked
  /\ \A who, other \in Requesters :
       request[who] # Idle /\ request[other] # Idle /\ request[who].id = request[other].id
         => who = other
  /\ ran \subseteq 1..asked

Told(who) ==
  \A id \in 1..asked : request[who] # Idle /\ request[who].id = id =>
    /\ request[who].at = "prompt" => EntriesOf(id) = {}
    /\ request[who].at \in {"approved", "ran", "listed", "granted"} => Tells(id, "approved")

AuditInv == Shape /\ Numbered /\ (\A who \in Requesters : Told(who)) /\ AuditTellsAll

LEMMA TrailGrows ==
  ASSUME Shape, NEW id \in Nat, NEW r \in Result, NEW c \in Asked, RecordResult(id, r, c)
  PROVE  /\ trail' \in Seq(Nat \X Result \X Asked)
         /\ DOMAIN trail' = DOMAIN trail \cup {Len(trail) + 1}
         /\ Len(trail) \in Nat /\ DOMAIN trail = 1..Len(trail)
         /\ \A i \in DOMAIN trail : trail'[i] = trail[i]
         /\ trail'[Len(trail) + 1][1] = id /\ trail'[Len(trail) + 1][2] = r
<1> DEFINE e == <<id, r, c>>
<1>1. e \in Nat \X Result \X Asked /\ e[1] = id /\ e[2] = r
  OBVIOUS
<1>2. trail \in Seq(Nat \X Result \X Asked) /\ trail' = Append(trail, e)
  BY DEF Shape, RecordResult
<1> HIDE DEF e
<1> QED  BY <1>1, <1>2

\* An entry of one request leaves the others' stories as they were ...
LEMMA OthersKeepStory ==
  ASSUME Shape, NEW id \in Nat, NEW r \in Result, NEW c \in Asked, RecordResult(id, r, c),
         NEW d, d # id
  PROVE  /\ EntriesOf(d)' = EntriesOf(d)
         /\ \A s : Tells(d, s) => Tells(d, s)'
         /\ ApprovedFirst(d) => ApprovedFirst(d)'
         /\ Over(d) => Over(d)'
<1>1. /\ DOMAIN trail' = DOMAIN trail \cup {Len(trail) + 1}
      /\ \A i \in DOMAIN trail : trail'[i] = trail[i]
      /\ trail'[Len(trail) + 1][1] = id
  BY TrailGrows
<1>2. EntriesOf(d)' = EntriesOf(d) /\ \A i \in EntriesOf(d) : trail'[i] = trail[i]
  BY <1>1 DEF EntriesOf
<1>3. \A s : Tells(d, s) => Tells(d, s)'
  BY <1>2 DEF Tells
<1>4. \A s, t : TellsThen(d, s, t) => TellsThen(d, s, t)'
  BY <1>2 DEF TellsThen
<1>5. ApprovedFirst(d) => ApprovedFirst(d)'
  BY <1>2 DEF ApprovedFirst
<1> QED  BY <1>2, <1>3, <1>4, <1>5 DEF Over

\* ... and continues its own: it begins it, or follows the approval.
LEMMA OwnStoryGoesOn ==
  ASSUME Shape, NEW id \in Nat, NEW r \in Result, NEW c \in Asked, RecordResult(id, r, c)
  PROVE  /\ EntriesOf(id) = {} => Tells(id, r)'
         /\ Tells(id, "approved") => TellsThen(id, "approved", r)'
         /\ ApprovedFirst(id) => ApprovedFirst(id)'
<1> DEFINE n == Len(trail) + 1
<1>1. /\ DOMAIN trail' = DOMAIN trail \cup {n}
      /\ \A i \in DOMAIN trail : trail'[i] = trail[i] /\ i < n
      /\ trail'[n][1] = id /\ trail'[n][2] = r /\ n \notin DOMAIN trail /\ n \in Nat
      /\ DOMAIN trail \subseteq Nat
  <2>1. /\ DOMAIN trail' = DOMAIN trail \cup {n} /\ Len(trail) \in Nat
        /\ DOMAIN trail = 1..Len(trail) /\ \A i \in DOMAIN trail : trail'[i] = trail[i]
        /\ trail'[n][1] = id /\ trail'[n][2] = r
    BY TrailGrows
  <2> QED  BY <2>1
<1> HIDE DEF n
<1>2. /\ EntriesOf(id)' = EntriesOf(id) \cup {n}
      /\ \A i \in EntriesOf(id) : trail'[i] = trail[i] /\ i < n /\ i \in Nat
  BY <1>1 DEF EntriesOf
<1>3. EntriesOf(id) = {} => Tells(id, r)'
  BY <1>1, <1>2 DEF Tells
<1>4. Tells(id, "approved") => TellsThen(id, "approved", r)'
  BY <1>1, <1>2 DEF Tells, TellsThen
<1>5. ApprovedFirst(id) => ApprovedFirst(id)'
  BY <1>1, <1>2 DEF ApprovedFirst
<1> QED  BY <1>3, <1>4, <1>5

LEMMA SameStory ==
  ASSUME trail' = trail, NEW d
  PROVE  /\ EntriesOf(d)' = EntriesOf(d)
         /\ \A s : Tells(d, s) => Tells(d, s)'
         /\ ApprovedFirst(d) => ApprovedFirst(d)'
         /\ Over(d) => Over(d)'
BY DEF EntriesOf, Tells, ApprovedFirst, Over, TellsThen

LEMMA ToldOnce ==
  ASSUME Shape, NEW id, Tells(id, "approved") PROVE ApprovedFirst(id)
<1>1. PICK i \in EntriesOf(id) : EntriesOf(id) = {i} /\ trail[i][2] = "approved"
  BY DEF Tells
<1>2. i \in Nat
  BY <1>1 DEF EntriesOf, Shape
<1> QED  BY <1>1, <1>2 DEF ApprovedFirst

-----------------------------------------------------------------------------
(* The requests' steps.                                                    *)

\* What a request is after a step, seen from the others: nothing of theirs moved.
LEMMA OthersWait ==
  ASSUME Shape, Numbered, NEW who \in Requesters, NEW r \in {Idle} \cup Request,
         request' = [request EXCEPT ![who] = r]
  PROVE  /\ request'[who] = r
         /\ \A other \in Requesters : other # who => request'[other] = request[other]
BY DEF Shape

\* A request under way moves on or is over. Its own story is told by the caller;
\* everybody else's stays.
LEMMA RequestStep ==
  ASSUME AuditInv, NEW who \in Requesters, request[who] # Idle,
         NEW id, id = request[who].id, NEW r \in {Idle} \cup Request,
         request' = [request EXCEPT ![who] = r], asked' = asked, Shape',
         \A i \in DOMAIN trail' : trail'[i][1] \in 1..asked,
         \A d : d # id => /\ EntriesOf(d)' = EntriesOf(d)
                          /\ \A s : Tells(d, s) => Tells(d, s)'
                          /\ ApprovedFirst(d) => ApprovedFirst(d)'
                          /\ Over(d) => Over(d)',
         r # Idle => r.id = id /\ r.at \in {"approved", "ran", "listed", "granted"} /\ Tells(id, "approved")',
         r = Idle => Over(id)',
         ran' \in {ran, ran \cup {id}}, id \in ran' => ApprovedFirst(id)'
  PROVE  AuditInv'
<1>1. /\ request'[who] = r
      /\ \A other \in Requesters : other # who => request'[other] = request[other]
  BY OthersWait DEF AuditInv
<1>3. id \in 1..asked
  BY DEF AuditInv, Numbered
<1>4. Numbered'
  <2>1. \A w, o \in Requesters :
          request'[w] # Idle /\ request'[o] # Idle /\ request'[w].id = request'[o].id
            => w = o
    BY <1>1 DEF AuditInv, Numbered
  <2>2. \A w \in Requesters : request'[w] # Idle => request'[w].id \in 1..asked
    BY <1>1, <1>3 DEF AuditInv, Numbered
  <2>3. ran' \subseteq 1..asked
    BY <1>3 DEF AuditInv, Numbered
  <2> QED  BY <2>1, <2>2, <2>3 DEF Numbered
<1>5. ASSUME NEW w \in Requesters PROVE Told(w)'
  <2> SUFFICES ASSUME NEW d \in 1..asked, request'[w] # Idle, request'[w].id = d
               PROVE  /\ request'[w].at = "prompt" => EntriesOf(d)' = {}
                      /\ request'[w].at \in {"approved", "ran", "listed", "granted"} => Tells(d, "approved")'
    BY DEF Told
  <2>1. CASE w = who
    BY <1>1, <2>1
  <2>2. CASE w # who
    <3>1. request'[w] = request[w] /\ d # id
      BY <1>1, <2>2 DEF AuditInv, Numbered
    <3>2. /\ request[w].at = "prompt" => EntriesOf(d) = {}
          /\ request[w].at \in {"approved", "ran", "listed", "granted"} => Tells(d, "approved")
      BY <3>1 DEF AuditInv, Told
    <3> QED  BY <3>1, <3>2
  <2> QED  BY <2>1, <2>2
<1>6. AuditTellsAll'
  <2> SUFFICES ASSUME NEW d \in 1..asked
               PROVE  /\ d \in ran' => ApprovedFirst(d)'
                      /\ ~ UnderWay(d)' => Over(d)'
    BY DEF AuditTellsAll
  <2>1. CASE d = id
    <3>1. r # Idle => UnderWay(id)'
      BY <1>1 DEF UnderWay
    <3> QED  BY <2>1, <3>1
  <2>2. CASE d # id
    <3>1. UnderWay(d) => UnderWay(d)'
      BY <1>1, <2>2 DEF UnderWay
    <3>2. (d \in ran => ApprovedFirst(d)) /\ (~ UnderWay(d) => Over(d))
      BY DEF AuditInv, AuditTellsAll
    <3>3. d \in ran' => d \in ran
      BY <2>2
    <3> QED  BY <2>2, <3>1, <3>2, <3>3
  <2> QED  BY <2>1, <2>2
<1> QED  BY <1>4, <1>5, <1>6 DEF AuditInv

\* A request that is made has the next number, which is nowhere yet.
LEMMA AskAudit ==
  ASSUME AuditInv, Shape', NEW who \in Requesters, NEW c \in Asked, NEW flaw,
         NEW runs \in BOOLEAN, Ask(who, c, flaw, runs)
  PROVE  AuditInv'
<1>0. asked \in Nat
  BY DEF AuditInv, Shape
<1> PICK n \in Nat : n = asked + 1
  BY <1>0
<1>1. /\ Shape /\ Numbered /\ asked' = n /\ ran' = ran
      /\ request[who] = Idle /\ 1..n = 1..asked \cup {n} /\ n \notin 1..asked
  BY <1>0 DEF AuditInv, Ask
<1>2. EntriesOf(n) = {} /\ n \notin ran
  BY <1>1 DEF Numbered, EntriesOf
<1>3. CASE Validates(c, flaw)
  <2> DEFINE r == [at |-> "prompt", id |-> n, of |-> c, runs |-> runs]
  <2>1. /\ request' = [request EXCEPT ![who] = r] /\ trail' = trail
        /\ r \in Request /\ r.at = "prompt" /\ r.id = n
    BY <1>1, <1>3 DEF Ask, Request
  <2>2. r # Idle
    BY <2>1 DEF Idle
  <2> HIDE DEF r
  <2>3. /\ request'[who] = r
        /\ \A other \in Requesters : other # who => request'[other] = request[other]
    BY <1>1, <2>1, OthersWait
  <2>4. Numbered'
    <3>1. \A i \in DOMAIN trail' : trail'[i][1] \in 1..asked'
      BY <1>1, <2>1 DEF Numbered
    <3>2. \A w \in Requesters : request'[w] # Idle => request'[w].id \in 1..asked'
      BY <1>1, <2>1, <2>3 DEF Numbered
    <3>3. \A w, o \in Requesters :
            request'[w] # Idle /\ request'[o] # Idle /\ request'[w].id = request'[o].id
              => w = o
      BY <1>1, <2>1, <2>3 DEF Numbered
    <3> QED  BY <1>1, <3>1, <3>2, <3>3 DEF Numbered
  <2>5. ASSUME NEW w \in Requesters PROVE Told(w)'
    <3> SUFFICES ASSUME NEW d \in 1..n, request'[w] # Idle, request'[w].id = d
                 PROVE  /\ request'[w].at = "prompt" => EntriesOf(d)' = {}
                        /\ request'[w].at \in {"approved", "ran", "listed", "granted"} => Tells(d, "approved")'
      BY <1>1 DEF Told
    <3>1. CASE w = who
      BY <1>2, <2>1, <2>3, <3>1, SameStory
    <3>2. CASE w # who
      <4>1. request'[w] = request[w] /\ d \in 1..asked
        BY <1>1, <2>3, <3>2 DEF Numbered
      <4>2. /\ request[w].at = "prompt" => EntriesOf(d) = {}
            /\ request[w].at \in {"approved", "ran", "listed", "granted"} => Tells(d, "approved")
        BY <4>1 DEF AuditInv, Told
      <4> QED  BY <2>1, <4>1, <4>2, SameStory
    <3> QED  BY <3>1, <3>2
  <2>6. AuditTellsAll'
    <3> SUFFICES ASSUME NEW d \in 1..n
                 PROVE  /\ d \in ran' => ApprovedFirst(d)'
                        /\ ~ UnderWay(d)' => Over(d)'
      BY <1>1 DEF AuditTellsAll
    <3>1. CASE d = n
      BY <1>1, <1>2, <2>1, <2>2, <2>3, <3>1 DEF UnderWay
    <3>2. CASE d # n
      <4>1. (d \in ran => ApprovedFirst(d)) /\ (~ UnderWay(d) => Over(d))
        BY <1>1, <3>2 DEF AuditInv, AuditTellsAll
      <4>2. UnderWay(d) => UnderWay(d)'
        BY <1>1, <2>3 DEF UnderWay
      <4> QED  BY <1>1, <2>1, <4>1, <4>2, SameStory
    <3> QED  BY <3>1, <3>2
  <2> QED  BY <2>4, <2>5, <2>6 DEF AuditInv
<1>4. CASE ~ Validates(c, flaw)
  <2>1. RecordResult(n, "denied", c) /\ request' = request /\ "denied" \in Result
    BY <1>4 DEF Ask, Result
  <2>2. /\ DOMAIN trail' = DOMAIN trail \cup {Len(trail) + 1}
        /\ \A i \in DOMAIN trail : trail'[i] = trail[i]
        /\ trail'[Len(trail) + 1][1] = n
    BY <1>1, <2>1, TrailGrows
  <2>3. \A d : d # n => /\ EntriesOf(d)' = EntriesOf(d)
                        /\ \A s : Tells(d, s) => Tells(d, s)'
                        /\ ApprovedFirst(d) => ApprovedFirst(d)'
                        /\ Over(d) => Over(d)'
    BY <1>1, <2>1, OthersKeepStory
  <2>4. Over(n)'
    BY <1>1, <1>2, <2>1, OwnStoryGoesOn DEF Over
  <2>5. Numbered'
    BY <1>1, <2>1, <2>2 DEF Numbered
  <2>6. ASSUME NEW w \in Requesters PROVE Told(w)'
    <3> SUFFICES ASSUME NEW d \in 1..n, request[w] # Idle, request[w].id = d
                 PROVE  /\ request[w].at = "prompt" => EntriesOf(d)' = {}
                        /\ request[w].at \in {"approved", "ran", "listed", "granted"} => Tells(d, "approved")'
      BY <1>1, <2>1 DEF Told
    <3>1. d \in 1..asked /\ d # n
      BY <1>1 DEF Numbered
    <3>2. /\ request[w].at = "prompt" => EntriesOf(d) = {}
          /\ request[w].at \in {"approved", "ran", "listed", "granted"} => Tells(d, "approved")
      BY <3>1 DEF AuditInv, Told
    <3> QED  BY <2>3, <3>1, <3>2
  <2>7. AuditTellsAll'
    <3> SUFFICES ASSUME NEW d \in 1..n
                 PROVE  /\ d \in ran' => ApprovedFirst(d)'
                        /\ ~ UnderWay(d)' => Over(d)'
      BY <1>1 DEF AuditTellsAll
    <3>1. CASE d = n
      BY <1>1, <1>2, <2>4, <3>1
    <3>2. CASE d # n
      <4>1. (d \in ran => ApprovedFirst(d)) /\ (~ UnderWay(d) => Over(d))
        BY <1>1, <3>2 DEF AuditInv, AuditTellsAll
      <4>2. UnderWay(d) => UnderWay(d)'
        BY <2>1 DEF UnderWay
      <4> QED  BY <1>1, <2>3, <3>2, <4>1, <4>2
    <3> QED  BY <3>1, <3>2
  <2> QED  BY <2>5, <2>6, <2>7 DEF AuditInv
<1> QED  BY <1>3, <1>4

\* The answer and the callable's outcome, as the trail tells them.
LEMMA AnswerAudit ==
  ASSUME AuditInv, Shape', NEW who \in Requesters,
         Decline(who) \/ Approve(who) \/ Execute(who) \/ Executed(who)
  PROVE  AuditInv'
<1>1. /\ Shape /\ Numbered /\ request[who] # Idle /\ request[who] \in Request
      /\ asked' = asked
  BY DEF AuditInv, Shape, Decline, Approve, Execute, Executed, Idle
<1>2. PICK id \in Nat : id = request[who].id
  BY <1>1 DEF Request
<1>3. PICK c \in Asked : c = request[who].of
  BY <1>1 DEF Request
<1>4. /\ id \in 1..asked
      /\ request[who].at = "prompt" => EntriesOf(id) = {}
      /\ request[who].at \in {"approved", "ran", "listed", "granted"} => Tells(id, "approved")
      /\ id \in ran => ApprovedFirst(id)
  BY <1>1, <1>2 DEF AuditInv, Numbered, Told, AuditTellsAll
<1>5. ASSUME NEW r \in Result, RecordResult(id, r, c)
      PROVE  /\ \A i \in DOMAIN trail' : trail'[i][1] \in 1..asked
             /\ \A d : d # id => /\ EntriesOf(d)' = EntriesOf(d)
                                 /\ \A s : Tells(d, s) => Tells(d, s)'
                                 /\ ApprovedFirst(d) => ApprovedFirst(d)'
                                 /\ Over(d) => Over(d)'
             /\ EntriesOf(id) = {} => Tells(id, r)'
             /\ Tells(id, "approved") => TellsThen(id, "approved", r)'
             /\ ApprovedFirst(id) => ApprovedFirst(id)'
  <2>1. /\ DOMAIN trail' = DOMAIN trail \cup {Len(trail) + 1}
        /\ \A i \in DOMAIN trail : trail'[i] = trail[i]
        /\ trail'[Len(trail) + 1][1] = id
    BY <1>1, <1>5, TrailGrows
  <2>2. \A i \in DOMAIN trail' : trail'[i][1] \in 1..asked
    BY <1>1, <1>4, <2>1 DEF Numbered
  <2> QED  BY <1>1, <1>5, <2>2, OthersKeepStory, OwnStoryGoesOn
<1>6. CASE Decline(who)
  <2>1. /\ request[who].at = "prompt" /\ RecordResult(id, "declined", c)
        /\ request' = [request EXCEPT ![who] = Idle] /\ ran' = ran /\ "declined" \in Result
    BY <1>2, <1>3, <1>6 DEF Decline, Result
  <2>2. Over(id)'
    BY <1>4, <1>5, <2>1 DEF Over
  <2> QED  BY <1>1, <1>2, <1>4, <1>5, <2>1, <2>2, RequestStep
<1>7. CASE Approve(who)
  <2> DEFINE q == [request[who] EXCEPT !.at = "approved"]
  <2>1. /\ request[who].at = "prompt" /\ RecordResult(id, "approved", c)
        /\ ran' = ran /\ "approved" \in Result
    BY <1>2, <1>3, <1>7 DEF Approve, Result
  <2>2. PICK r \in {q, Idle} : request' = [request EXCEPT ![who] = r]
    BY <1>1, <1>7 DEF Approve, Shape
  <2>3. q \in Request /\ q.at = "approved" /\ q.id = id
    BY <1>1, <1>2 DEF Request
  <2> HIDE DEF q
  <2>4. Tells(id, "approved")'
    BY <1>4, <1>5, <2>1
  <2>5. Over(id)'
    BY <2>4 DEF Over
  <2> QED  BY <1>1, <1>2, <1>4, <1>5, <2>1, <2>2, <2>3, <2>4, <2>5, RequestStep
<1>8. CASE Execute(who)
  <2> DEFINE q == [request[who] EXCEPT !.at = "ran"]
  <2>1. /\ request[who].at = "approved" /\ trail' = trail /\ ran' = ran \cup {id}
        /\ request' = [request EXCEPT ![who] = q]
    BY <1>1, <1>2, <1>8 DEF Execute, Shape
  <2>2. q \in Request /\ q.at = "ran" /\ q.id = id
    BY <1>1, <1>2 DEF Request
  <2>3. q # Idle
    BY <2>2 DEF Idle
  <2> HIDE DEF q
  <2>4. Tells(id, "approved")' /\ ApprovedFirst(id)'
    BY <1>1, <1>4, <2>1, SameStory, ToldOnce
  <2>5. \A i \in DOMAIN trail' : trail'[i][1] \in 1..asked
    BY <1>1, <2>1 DEF Numbered
  <2>6. \A d : d # id => /\ EntriesOf(d)' = EntriesOf(d)
                         /\ \A s : Tells(d, s) => Tells(d, s)'
                         /\ ApprovedFirst(d) => ApprovedFirst(d)'
                         /\ Over(d) => Over(d)'
    BY <2>1, SameStory
  <2> QED  BY <1>1, <1>2, <2>1, <2>2, <2>3, <2>4, <2>5, <2>6, RequestStep
<1>9. CASE Executed(who)
  <2>1. /\ request[who].at = "ran"
        /\ request' = [request EXCEPT ![who] = Idle] /\ ran' = ran
    BY <1>9 DEF Executed
  <2>2. PICK r \in {"executed", "failed"} : RecordResult(id, r, c) /\ r \in Result
    BY <1>2, <1>3, <1>9 DEF Executed, Result
  <2>3. Over(id)'
    BY <1>4, <1>5, <2>1, <2>2 DEF Over
  <2> QED  BY <1>1, <1>2, <1>4, <1>5, <2>1, <2>2, <2>3, RequestStep
<1> QED  BY <1>6, <1>7, <1>8, <1>9

\* The rest leaves requests and trail alone; an escalation ends AURA's request,
\* whose approval is already its whole story.
LEMMA OtherAudit ==
  ASSUME AuditInv, Shape', UNCHANGED <<request, asked, trail, ran>>
  PROVE  AuditInv'
<1>1. \A d : /\ EntriesOf(d)' = EntriesOf(d)
             /\ \A s : Tells(d, s) => Tells(d, s)'
             /\ ApprovedFirst(d) => ApprovedFirst(d)'
             /\ Over(d) => Over(d)'
  BY SameStory
<1>2. Numbered'
  BY DEF AuditInv, Numbered
<1>3. \A who \in Requesters : Told(who)'
  BY <1>1 DEF AuditInv, Told
<1>4. AuditTellsAll'
  BY <1>1 DEF AuditInv, AuditTellsAll, UnderWay
<1> QED  BY <1>2, <1>3, <1>4 DEF AuditInv

LEMMA EscalateAudit == ASSUME AuditInv, Shape', Escalate PROVE AuditInv'
<1> DEFINE who == "AURA"
<1>1. /\ Shape /\ Numbered /\ who \in Requesters /\ UNCHANGED <<asked, trail, ran>>
      /\ request[who].at \in {"approved", "ran", "listed", "granted"}
  BY DEF AuditInv, Escalate, EscalationListed, EscalationGranted, EscalationAudited, Requesters
<1>2. request[who] \in Request /\ request[who] # Idle
  BY <1>1 DEF Shape, Idle, Request
<1>3. PICK id \in Nat : id = request[who].id
  BY <1>2 DEF Request
<1>4. PICK r \in {Idle} \cup Request :
        /\ request' = [request EXCEPT ![who] = r]
        /\ r # Idle => r.id = id /\ r.at \in {"listed", "granted"}
  <2>1. CASE EscalationListed
    <3> DEFINE q == [request[who] EXCEPT !.at = "listed"]
    <3>1. q \in Request /\ q.id = id /\ q.at = "listed"  BY <1>2, <1>3 DEF Request
    <3>2. request' = [request EXCEPT ![who] = q]  BY <2>1 DEF EscalationListed
    <3> HIDE DEF q
    <3> QED  BY <3>1, <3>2
  <2>2. CASE EscalationGranted
    <3> DEFINE q == [request[who] EXCEPT !.at = "granted"]
    <3>1. q \in Request /\ q.id = id /\ q.at = "granted"  BY <1>2, <1>3 DEF Request
    <3>2. request' = [request EXCEPT ![who] = q]  BY <2>2 DEF EscalationGranted
    <3> HIDE DEF q
    <3> QED  BY <3>1, <3>2
  <2>3. CASE EscalationAudited
    BY <2>3 DEF EscalationAudited
  <2> QED  BY <2>1, <2>2, <2>3 DEF Escalate
<1>5. id \in 1..asked /\ Tells(id, "approved") /\ (id \in ran => ApprovedFirst(id))
  BY <1>1, <1>2, <1>3 DEF AuditInv, Numbered, Told, AuditTellsAll
<1>6. Over(id)
  BY <1>5 DEF Over
<1>7. \A d : /\ EntriesOf(d)' = EntriesOf(d)
             /\ \A s : Tells(d, s) => Tells(d, s)'
             /\ ApprovedFirst(d) => ApprovedFirst(d)'
             /\ Over(d) => Over(d)'
  BY <1>1, SameStory
<1>8. \A i \in DOMAIN trail' : trail'[i][1] \in 1..asked
  BY <1>1 DEF Numbered
<1> HIDE DEF who
<1> QED  BY <1>1, <1>2, <1>3, <1>4, <1>5, <1>6, <1>7, <1>8, RequestStep

LEMMA AuditStep == AuditInv /\ Shape' /\ [OverrideNext]_overrideVars => AuditInv'
<1> SUFFICES ASSUME AuditInv, Shape', [OverrideNext]_overrideVars PROVE AuditInv'
  OBVIOUS
<1>1. CASE \E who \in Requesters : \E c \in Asked, flaw \in {"none", "protected path", "blank reason"},
             runs \in BOOLEAN : Ask(who, c, flaw, runs)
  BY <1>1, AskAudit
<1>2. CASE \E who \in Requesters : Decline(who) \/ Approve(who) \/ Execute(who) \/ Executed(who)
  BY <1>2, AnswerAudit
<1>3. CASE PermNext /\ UNCHANGED <<hostVars, request, asked, trail, ran, escalated, audit>>
  BY <1>3, OtherAudit
<1>4. CASE \E c \in Asked : EscalationRefused(c) \/ ExecuteAsVirtualRoot(c)
  BY <1>4, OtherAudit DEF EscalationRefused, ExecuteAsVirtualRoot
<1>5. CASE UNCHANGED overrideVars
  BY <1>5, OtherAudit DEF overrideVars
<1> QED  BY <1>1, <1>2, <1>3, <1>4, <1>5, EscalateAudit DEF OverrideNext

LEMMA AuditInitInv == OverrideInit => AuditInv
<1> SUFFICES ASSUME OverrideInit PROVE AuditInv
  OBVIOUS
<1>1. Shape
  BY EscInit DEF EscInv
<1>2. /\ asked = 0 /\ ran = {} /\ DOMAIN trail = {} /\ 1..asked = {}
      /\ \A who \in Requesters : request[who] = Idle
  BY DEF OverrideInit
<1>3. Numbered /\ (\A who \in Requesters : Told(who)) /\ AuditTellsAll
  BY <1>2 DEF Numbered, Told, AuditTellsAll
<1> QED  BY <1>1, <1>3 DEF AuditInv

\* Nothing runs before its approval is on record, and a request that is over has
\* exactly one of the five endings in the trail, whatever two requesters do at
\* once: override.py:296-365.
THEOREM AuditTellsAllAlways == OverrideSpec => []AuditTellsAll
<1>1. EscInv => Shape
  BY DEF EscInv
<1>2. AuditInv => AuditTellsAll
  BY DEF AuditInv
<1> QED  BY <1>1, <1>2, AuditInitInv, EscInit, EscStep, AuditStep, PTL DEF OverrideSpec

-----------------------------------------------------------------------------
(* The permission model underneath.                                        *)

\* An escalation is a grant of a capability the permission model knows.
LEMMA OverrideUsesPermissions ==
  EscInv /\ [OverrideNext]_overrideVars => [PermNext]_permVars
<1> SUFFICES ASSUME EscInv, [OverrideNext]_overrideVars PROVE [PermNext]_permVars
  OBVIOUS
<1>1. CASE EscalationGranted
  <2>1. request["AURA"].at = "listed" /\ request["AURA"] \in Request
    BY <1>1 DEF EscalationGranted, EscInv, Shape, Requesters, Idle
  <2>2. PICK c \in Asked : c = request["AURA"].of
    BY <2>1 DEF Request
  <2>3. Lawful(c)
    BY <2>1, <2>2 DEF EscInv, Waits, Escalating, InStep5
  <2>4. HostEscalationEligible \subseteq KnownCaps
    <3>1. TierCaps[1] \subseteq KnownCaps /\ TierCaps[2] \subseteq KnownCaps
          /\ TierCaps[3] \subseteq KnownCaps
      BY DEF KnownCaps
    <3>2. "proc.kill" \in TierCaps[1]
      BY DEF TierCaps
    <3>3. {"net.listen", "net.raw", "fs.mount_bind"} \subseteq TierCaps[2]
      BY DEF TierCaps
    <3>4. {"hal.project", "hal.teardown", "device.write"} \subseteq TierCaps[3]
      BY DEF TierCaps
    <3> QED  BY <3>1, <3>2, <3>3, <3>4 DEF HostEscalationEligible
  <2>5. c \in Caps
    BY <2>2, <2>3, <2>4, AskedAssumption DEF Lawful, MayAsk
  <2>6. Grant(c)
    BY <1>1, <2>2 DEF EscalationGranted
  <2> QED  BY <2>5, <2>6 DEF PermNext
<1>2. CASE \E who \in Requesters :
        \/ \E c \in Asked, flaw \in {"none", "protected path", "blank reason"},
              runs \in BOOLEAN : Ask(who, c, flaw, runs)
        \/ Decline(who) \/ Approve(who) \/ Execute(who) \/ Executed(who)
  BY <1>2 DEF Ask, Decline, Approve, Execute, Executed
<1>3. CASE \E c \in Asked : EscalationRefused(c) \/ ExecuteAsVirtualRoot(c)
  BY <1>3 DEF EscalationRefused, ExecuteAsVirtualRoot
<1>4. CASE UNCHANGED overrideVars
  BY <1>4 DEF overrideVars
<1>5. CASE EscalationListed \/ EscalationAudited
  BY <1>5 DEF EscalationListed, EscalationAudited
<1> QED  BY <1>1, <1>2, <1>3, <1>4, <1>5 DEF OverrideNext, Escalate

\* Overrides and escalations never step outside the permission model: with them too,
\* it does nothing but change modes, grant, revoke, reset and let calls through.
THEOREM OverrideImplementsPermissions == OverrideSpec => PermSpec
<1>1. OverrideInit => PermInit
  BY DEF OverrideInit
<1> QED  BY <1>1, EscInit, EscStep, OverrideUsesPermissions, PTL DEF OverrideSpec, PermSpec

\* With overrides and escalations too, what is allowed, what is listed and what went
\* through is what the history of modes, grants, revocations and resets says.
THEOREM EntitledUnderOverride == OverrideSpec => []EntitledByHistory
BY OverrideImplementsPermissions, EntitledAlways, PTL

\* The host stays the one that was detected, and requests are counted.
Bounded == host \in Hosts /\ bridged \in BOOLEAN /\ asked \in 0..MaxRequests

LEMMA BoundedStep == Bounded /\ [OverrideNext]_overrideVars => Bounded'
<1> SUFFICES ASSUME Bounded, [OverrideNext]_overrideVars PROVE Bounded'
  OBVIOUS
<1>1. CASE \E who \in Requesters : \E c \in Asked,
             flaw \in {"none", "protected path", "blank reason"},
             runs \in BOOLEAN : Ask(who, c, flaw, runs)
  <2>1. asked < MaxRequests /\ asked' = asked + 1 /\ UNCHANGED <<host, bridged>>
    BY <1>1 DEF Ask, hostVars
  <2> QED  BY <2>1, AskedAssumption DEF Bounded
<1>2. ASSUME \/ \E who \in Requesters : Decline(who) \/ Approve(who) \/ Execute(who) \/ Executed(who)
             \/ PermNext /\ UNCHANGED <<hostVars, request, asked, trail, ran, escalated, audit>>
             \/ Escalate
             \/ \E c \in Asked : EscalationRefused(c) \/ ExecuteAsVirtualRoot(c)
             \/ UNCHANGED overrideVars
      PROVE  UNCHANGED <<host, bridged, asked>>
  BY <1>2 DEF Decline, Approve, Execute, Executed, Escalate, EscalationListed,
              EscalationGranted, EscalationAudited, EscalationRefused, ExecuteAsVirtualRoot,
              overrideVars, hostVars
<1> QED  BY <1>1, <1>2 DEF Bounded, OverrideNext

\* Requests and escalations keep their shape, only requests that were made have
\* run, and only what is asked for is escalated to: override.py:296-365,
\* privilege.py.
THEOREM OverrideTypeCorrect == OverrideSpec => []OverrideTypeOK
<1>1. OverrideInit => Bounded  BY AskedAssumption DEF OverrideInit, Bounded
<1>2. EscInv /\ AuditInv /\ Bounded /\ PermTypeOK => OverrideTypeOK
  <2> SUFFICES ASSUME EscInv, AuditInv, Bounded, PermTypeOK, NEW who \in Requesters
               PROVE  /\ request[who].at \in {"idle", "prompt", "approved", "ran", "listed", "granted"}
                      /\ ran \subseteq 1..asked /\ escalated \subseteq Asked
    BY DEF OverrideTypeOK, Bounded, EscInv, AuditInv, Numbered
  <2>1. request[who] \in {Idle} \cup Request
    BY DEF EscInv, Shape
  <2>2. request[who].at \in {"idle", "prompt", "approved", "ran", "listed", "granted"}
    BY <2>1 DEF Idle, Request
  <2> QED  BY <2>2 DEF EscInv, AuditInv, Numbered
<1>3. EscInv => Shape
  BY DEF EscInv
<1> QED  BY <1>1, <1>2, <1>3, BoundedStep, EscInit, EscStep, AuditInitInv, AuditStep,
            OverrideImplementsPermissions, PermTypeCorrect, PTL DEF OverrideSpec
=============================================================================
