--------------------------- MODULE Intake_proofs ---------------------------
(***************************************************************************)
(* Whom a request is charged to, for any number of clients, accounts and   *)
(* webhooks.  While the mapping is being loaded nobody is charged, and     *)
(* from then on it does not change: IntakeInv says what it is and that the *)
(* charges follow it.  To the limiter, Intake is an environment that asks: *)
(* its bounds carry over.                                                  *)
(***************************************************************************)
EXTENDS Intake, RateLimiter_proofs, FiniteSetTheorems

\* What is in WebhookToClient comes from a search with the client's own key,
\* and what was found and is not in it cannot be.
MappingInv ==
    /\ mapping \in [Hooks -> Configured \cup {NoClient}]
    /\ listed \subseteq registered
    /\ \A h \in Hooks :
         /\ mapping[h] # NoClient => h \in listed /\ OwnerOf[h] = AccountOf[mapping[h]]
         /\ h \in listed => mapping[h] # NoClient

\* A header: a webhook's id, or any other text but the empty one.
Texts == Hooks \cup Claims

ChargesInv ==
    /\ charged \subseteq (Texts \cup {NoHook}) \X Clients
    /\ ~Serving => charged = {}
    /\ \A p \in charged :
         \/ p[1] \in Texts /\ p[2] = ByHook(p[1])
         \/ p[1] = NoHook /\ p[2] = Unknown
         \/ p[1] = NoHook /\ p[2] \in Claims /\ debug

IntakeInv ==
    /\ registered \subseteq Hooks
    /\ debug \in BOOLEAN
    /\ toLoad \subseteq Configured
    /\ MappingInv
    /\ ChargesInv
-----------------------------------------------------------------------------
\* What a search returns of an account's webhooks.
LEMMA PageFacts ==
  ASSUME NEW a, NEW page \in SearchResults(a)
  PROVE  /\ page \subseteq registered
         /\ \A h \in page : OwnerOf[h] = a
  BY DEF SearchResults, OwnedBy

\* Whom a POST that is an event is charged to.
LEMMA ClientForFacts ==
  ASSUME IntakeInv, NEW q \in Posts, IsEvent(q)
  PROVE  /\ ClientFor(q) \in Clients
         /\ \/ q.hook \in Texts /\ ClientFor(q) = ByHook(q.hook)
            \/ q.hook = NoHook /\ ClientFor(q) = Unknown
            \/ q.hook = NoHook /\ ClientFor(q) \in Claims /\ debug
<1>1. q.hook \in Texts \cup {NoHook} /\ q.client \in Claims \cup {NoClient}
  BY DEF Posts, IsEvent, IsValidation, Texts
<1>2. CASE q.hook # NoHook
  <2>1. q.hook \in Texts
    BY <1>1, <1>2
  <2>2. ClientFor(q) = ByHook(q.hook)
    BY <1>2 DEF ClientFor
  <2>3. ByHook(q.hook) \in Configured \cup Texts
    BY <2>1 DEF ByHook, GetClientForWebhook, IntakeInv, MappingInv
  <2> QED
    BY <2>1, <2>2, <2>3, IntakeAssumption DEF Texts
<1>3. CASE q.hook = NoHook
  <2>1. CASE ClaimOf(q) # NoClient
    <3>1. ClaimOf(q) = q.client /\ debug
      BY <2>1 DEF ClaimOf
    <3> QED
      BY <1>1, <1>3, <2>1, <3>1, IntakeAssumption DEF ClientFor
  <2>2. CASE ClaimOf(q) = NoClient
    BY <1>3, <2>2, IntakeAssumption DEF ClientFor
  <2> QED
    BY <2>1, <2>2
<1> QED
  BY <1>2, <1>3

LEMMA FetchKeeps ==
  ASSUME IntakeInv, NEW c \in Configured, Fetch(c)
  PROVE  IntakeInv'
<1>1. PICK page \in SearchResults(AccountOf[c]) :
         /\ mapping' = [h \in Hooks |-> IF h \in page THEN c ELSE mapping[h]]
         /\ listed' = listed \cup page
  BY DEF Fetch
<1>2. page \subseteq registered /\ \A h \in page : OwnerOf[h] = AccountOf[c]
  BY <1>1, PageFacts
<1>3. MappingInv'
  BY <1>1, <1>2, IntakeAssumption DEF Fetch, IntakeInv, MappingInv
<1>4. charged = {} /\ charged' = {}
  BY DEF Fetch, IntakeInv, ChargesInv, Serving
<1>5. ChargesInv'
  BY <1>4 DEF ChargesInv
<1> QED
  BY <1>3, <1>5 DEF IntakeInv, Fetch

LEMMA ChargeKeeps ==
  ASSUME IntakeInv, NEW q \in Posts, Charge(q)
  PROVE  IntakeInv'
<1>1. /\ ClientFor(q) \in Clients
      /\ \/ q.hook \in Texts /\ ClientFor(q) = ByHook(q.hook)
         \/ q.hook = NoHook /\ ClientFor(q) = Unknown
         \/ q.hook = NoHook /\ ClientFor(q) \in Claims /\ debug
  BY ClientForFacts DEF Charge
<1>2. UNCHANGED <<registered, debug, toLoad, mapping, listed>>
  BY DEF Charge, mappingVars
<1>3. MappingInv'
  BY <1>2 DEF IntakeInv, MappingInv
<1>4. charged' = charged \cup {<<q.hook, ClientFor(q)>>}
  BY DEF Charge
<1>5. ASSUME NEW p \in charged'
      PROVE  \/ p[1] \in Texts /\ p[2] = ByHook(p[1])
             \/ p[1] = NoHook /\ p[2] = Unknown
             \/ p[1] = NoHook /\ p[2] \in Claims /\ debug
  <2>1. CASE p \in charged
    BY <2>1 DEF IntakeInv, ChargesInv
  <2>2. CASE p = <<q.hook, ClientFor(q)>>
    BY <1>1, <2>2
  <2> QED
    BY <1>4, <2>1, <2>2
<1>6. ChargesInv'
  BY <1>1, <1>2, <1>4, <1>5 DEF IntakeInv, ChargesInv, ByHook, GetClientForWebhook, Serving, Charge
<1> QED
  BY <1>2, <1>3, <1>6 DEF IntakeInv

THEOREM IntakeInvariance == Spec => []IntakeInv
<1>1. Init => IntakeInv
  BY DEF Init, IntakeInv, MappingInv, ChargesInv, Serving
<1>2. IntakeInv /\ [Next]_vars => IntakeInv'
  <2> SUFFICES ASSUME IntakeInv, [Next]_vars PROVE IntakeInv'
    OBVIOUS
  <2>1. ASSUME NEW c \in Configured, Fetch(c) PROVE IntakeInv'
    BY <2>1, FetchKeeps
  <2>2. ASSUME NEW c \in Configured, FetchFails(c) PROVE IntakeInv'
    BY <2>2 DEF FetchFails, IntakeInv, MappingInv, ChargesInv, Serving
  <2>3. ASSUME NEW q \in Posts, Charge(q) PROVE IntakeInv'
    BY <2>3, ChargeKeeps
  <2>4. ASSUME NEW q \in Posts, AnswerAtOnce(q) PROVE IntakeInv'
    BY <2>4 DEF AnswerAtOnce, vars, mappingVars, IntakeInv, MappingInv, ChargesInv,
                ByHook, GetClientForWebhook, Serving
  <2>5. ASSUME NEW h \in Hooks, Register(h), UNCHANGED <<mappingVars, charged>>
        PROVE  IntakeInv'
    BY <2>5 DEF Register, mappingVars, IntakeInv, MappingInv, ChargesInv, ByHook,
                GetClientForWebhook, Serving
  <2>6. CASE UNCHANGED <<registered, mappingVars, charged>>
    BY <2>6 DEF mappingVars, IntakeInv, MappingInv, ChargesInv, ByHook,
                GetClientForWebhook, Serving
  <2>7. CASE Restart
    BY <2>7 DEF Restart, IntakeInv, MappingInv, ChargesInv, Serving
  <2> QED
    BY <2>1, <2>2, <2>3, <2>4, <2>5, <2>6, <2>7 DEF Next, vars
<1> QED
  BY <1>1, <1>2, PTL DEF Spec

\* To the limiter this is a day like any other.
THEOREM IntakeAsksLimiter == Spec => LimiterSpec
<1>1. Init => LimiterInit
  BY DEF Init
<1>2. IntakeInv /\ [Next]_vars => [LimiterNext]_limiterVars
  <2> SUFFICES ASSUME IntakeInv, [Next]_vars PROVE [LimiterNext]_limiterVars
    OBVIOUS
  <2>1. ASSUME NEW q \in Posts, Charge(q) PROVE LimiterNext
    <3>1. ClientFor(q) \in Clients
      BY <2>1, ClientForFacts DEF Charge
    <3> QED
      BY <2>1, <3>1 DEF Charge, LimiterNext
  <2>2. CASE UNCHANGED limiterVars
    BY <2>2
  <2>3. CASE Time \/ ForgetLimits
    BY <2>3 DEF LimiterNext
  <2> QED
    BY <2>1, <2>2, <2>3
    DEF Next, vars, Fetch, FetchFails, AnswerAtOnce, Restart
<1> QED
  BY <1>1, <1>2, IntakeInvariance, PTL DEF Spec, LimiterSpec
-----------------------------------------------------------------------------
\* The state has its type.
THEOREM IntakeTypeCorrect == Spec => []TypeOK
<1>1. IntakeInv /\ LimiterInv => TypeOK
  BY DEF IntakeInv, MappingInv, ChargesInv, Texts, LimiterInv, TypeOK
<1> QED
  BY <1>1, IntakeInvariance, IntakeAsksLimiter, LimiterInvariance, PTL

\* The limiter's bounds hold of whoever the requests are charged to
\* (rate_limiter.go, AllowRequest, as called by Handle).
THEOREM IntakeWindowBound == Spec => []WindowBound
BY IntakeAsksLimiter, TwiceADay, PTL

THEOREM IntakeRefusals == Spec => []RefusedOnlyWhenSpent
BY IntakeAsksLimiter, RefusalsEarned, PTL

\* A webhook's requests are all charged to one client (extractClientID).
THEOREM OneClient == Spec => []OneClientPerHook
<1>1. IntakeInv => OneClientPerHook
  BY IntakeAssumption DEF IntakeInv, ChargesInv, Texts, OneClientPerHook
<1> QED
  BY <1>1, IntakeInvariance, PTL

\* A webhook that was found is charged to a client of its account; what else a
\* configured client is charged came with its name, in the header or, to the
\* debug handler, in the body (extractClientID).
THEOREM Owners == Spec => []ChargedToOwner
<1>1. IntakeInv => ChargedToOwner
  <2> SUFFICES ASSUME IntakeInv, NEW p \in charged, p[2] \in Configured
               PROVE  \/ p[1] \in listed /\ OwnerOf[p[1]] = AccountOf[p[2]]
                      \/ p[1] \notin listed /\ p[1] = p[2]
                      \/ p[1] = NoHook /\ (debug \/ p[2] = Unknown)
    BY DEF ChargedToOwner
  <2>0. MappingInv /\ listed \subseteq Hooks
    BY DEF IntakeInv, MappingInv
  <2>1. CASE p[1] \in listed /\ p[2] = ByHook(p[1])
    <3>1. p[1] \in Hooks /\ mapping[p[1]] # NoClient
      BY <2>0, <2>1 DEF MappingInv
    <3> QED
      BY <2>0, <2>1, <3>1 DEF MappingInv, ByHook, GetClientForWebhook
  <2>2. CASE p[1] \notin listed /\ p[2] = ByHook(p[1])
    BY <2>0, <2>2 DEF MappingInv, ByHook, GetClientForWebhook
  <2>3. CASE p[1] = NoHook /\ (p[2] = Unknown \/ debug)
    BY <2>3
  <2> QED
    BY <2>1, <2>2, <2>3 DEF IntakeInv, ChargesInv
<1> QED
  BY <1>1, IntakeInvariance, PTL

\* The webhooks of an account share a limit as far as they were listed.
THEOREM Shared == Spec => []LimitsShared
<1>1. IntakeInv => LimitsShared
  <2> SUFFICES ASSUME IntakeInv, NEW a \in Accounts
               PROVE  LET own == {h \in Hooks : OwnerOf[h] = a}
                          used == {p[2] : p \in {p \in charged : p[1] \in own}}
                          clients == {c \in Configured : AccountOf[c] = a}
                      IN  Cardinality(used) <=
                            Cardinality(clients) + Cardinality(own \ listed)
    BY DEF LimitsShared
  <2> DEFINE own == {h \in Hooks : OwnerOf[h] = a}
             used == {p[2] : p \in {p \in charged : p[1] \in own}}
             clients == {c \in Configured : AccountOf[c] = a}
             alone == own \ listed
  <2>1. used \subseteq clients \cup alone
    <3> SUFFICES ASSUME NEW p \in charged, p[1] \in own
                 PROVE  p[2] \in clients \cup alone
      OBVIOUS
    <3>1. p[1] \in Hooks /\ p[2] = ByHook(p[1])
      BY IntakeAssumption DEF IntakeInv, ChargesInv
    <3>2. CASE mapping[p[1]] # NoClient
      BY <3>1, <3>2 DEF ByHook, GetClientForWebhook, IntakeInv, MappingInv
    <3>3. CASE mapping[p[1]] = NoClient
      BY <3>1, <3>3 DEF ByHook, GetClientForWebhook, IntakeInv, MappingInv
    <3> QED
      BY <3>2, <3>3
  <2>2. IsFiniteSet(clients) /\ IsFiniteSet(alone)
    BY FS_Subset, IntakeAssumption
  <2> HIDE DEF own, used, clients, alone
  <2>3. /\ IsFiniteSet(clients \cup alone)
        /\ Cardinality(clients \cup alone) =
             Cardinality(clients) + Cardinality(alone) - Cardinality(clients \cap alone)
    BY <2>2, FS_Union
  <2>4. Cardinality(used) <= Cardinality(clients \cup alone) /\ IsFiniteSet(used)
    BY <2>1, <2>3, FS_Subset
  <2>5. IsFiniteSet(clients \cap alone)
    BY <2>2, FS_Subset
  <2>6. /\ Cardinality(clients \cap alone) \in Nat /\ Cardinality(clients) \in Nat
        /\ Cardinality(alone) \in Nat /\ Cardinality(used) \in Nat
    BY <2>2, <2>4, <2>5, FS_CardinalityType
  <2>7. Cardinality(used) <= Cardinality(clients) + Cardinality(alone)
    BY <2>3, <2>4, <2>6
  <2> QED
    BY <2>7 DEF own, used, clients, alone
<1> QED
  BY <1>1, IntakeInvariance, PTL
=============================================================================
