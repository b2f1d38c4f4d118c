----------------------------- MODULE RaClientProofs -----------------------------
(***************************************************************************)
(* Proofs about RaClient, for any number of runs, contexts and enclaves,   *)
(* and any server.                                                         *)
(***************************************************************************)
EXTENDS RaClient, TLAPS

-----------------------------------------------------------------------------
\* The inductive invariant.

\* From the first answer on there are a context and a key.
Begun(r) ==
    pc[r] \in {"keys", "quote", "maa", "report", "bench", "tell", "compute"} =>
        ctx[r] # None /\ ga[r] # None

\* Quotes are what the server can get, and MAA vouched for the one that is being checked.
Quoted(r) ==
    /\ quote[r] \in Quote => MayQuote(quote[r])
    /\ pc[r] = "report" => quote[r] \in Quote

\* A run accepts once, and what it accepts, as long as it remembers it, is the quote of an
\* expected enclave for this run.
Accepted(r) ==
    result[r] =>
        /\ pc[r] \in {"bench", "tell", "compute", "destruct", "end"}
        /\ quote[r] # None =>
              /\ quote[r] \in Quote /\ quote[r].enclave \in Expected
              /\ quote[r].ga = ga[r] /\ quote[r].gb = r

\* The answer to a positive result opens the way for the secrets, which leave once.
Told(r) ==
    /\ pc[r] = "compute" => result[r] /\ <<ctx[r], TRUE>> \in told
    /\ secrets[r] # None => pc[r] \in {"destruct", "end"}

RunInv(r) == Begun(r) /\ Quoted(r) /\ Accepted(r) /\ Told(r)

Inv ==
    /\ TypeOK
    /\ \A r \in Run : RunInv(r)
    /\ SecretsReachTheEnclave
    /\ ResultComesFirst

-----------------------------------------------------------------------------
LEMMA InvInit == Init => Inv
  BY RaAssumption DEF Init, Inv, TypeOK, RunInv, Begun, Quoted, Accepted, Told,
     SecretsReachTheEnclave, ResultComesFirst

\* Every request keeps the types.
LEMMA TypeStep == ASSUME Inv, NEW r \in Run, Start(r) \/ Advance(r) PROVE TypeOK'
<1> USE RaAssumption DEF Inv, TypeOK, GoTo, session, observed
<1>0. RunInv(r)
  OBVIOUS
<1>1. CASE Start(r)
  BY <1>1 DEF Start
<1>2. CASE InitializeRa(r)
  BY <1>2 DEF InitializeRa, Fail, Cut, Abandon, Forget
<1>3. CASE ProcessSessionKeys(r)
  BY <1>3 DEF ProcessSessionKeys, Abandon, Forget
<1>4. CASE GetQuote(r)
  BY <1>0, <1>4 DEF GetQuote, Fail, Cut, Abandon, Forget, Receive, RunInv, Begun
<1>5. CASE SendQuoteToMaa(r)
  BY <1>5 DEF SendQuoteToMaa, Fail, Cut, Abandon, Forget
<1>6. CASE ProcessRaReport(r)
  BY <1>6, ZenonT(40) DEF ProcessRaReport, Cut, Forget, IdentityFits, ReportDataMatches
<1>7. CASE RunBenchmark(r)
  BY <1>7 DEF RunBenchmark, Cut, Forget
<1>8. CASE SendRaResult(r)
  BY <1>8 DEF SendRaResult, Cut, Abandon, Forget
<1>9. CASE SampleRemoteComputation(r)
  BY <1>9 DEF SampleRemoteComputation
<1>10. CASE DestructRaContext(r)
  BY <1>10 DEF DestructRaContext
<1> QED
  BY <1>1, <1>2, <1>3, <1>4, <1>5, <1>6, <1>7, <1>8, <1>9, <1>10 DEF Advance

\* A request of one run leaves the others as they are, up to results told to the server.
LEMMA OthersStep ==
  ASSUME Inv, NEW r \in Run, Start(r) \/ Advance(r)
  PROVE  /\ \A s \in Run \ {r} : /\ pc'[s] = pc[s] /\ ctx'[s] = ctx[s] /\ ga'[s] = ga[s]
                                /\ quote'[s] = quote[s] /\ result'[s] = result[s]
                                /\ secrets'[s] = secrets[s]
         /\ told \subseteq told'
<1> USE DEF Inv, TypeOK, GoTo, session, observed
<1>1. CASE Start(r)
  BY <1>1 DEF Start
<1>2. CASE InitializeRa(r)
  BY <1>2 DEF InitializeRa, Fail, Cut, Abandon, Forget
<1>3. CASE ProcessSessionKeys(r)
  BY <1>3 DEF ProcessSessionKeys, Abandon, Forget
<1>4. CASE GetQuote(r)
  BY <1>4 DEF GetQuote, Fail, Cut, Abandon, Forget, Receive
<1>5. CASE SendQuoteToMaa(r)
  BY <1>5 DEF SendQuoteToMaa, Fail, Cut, Abandon, Forget, MaaVouches
<1>6. CASE ProcessRaReport(r)
  BY <1>6 DEF ProcessRaReport, Cut, Forget
<1>7. CASE RunBenchmark(r)
  BY <1>7 DEF RunBenchmark, Cut, Forget
<1>8. CASE SendRaResult(r)
  BY <1>8 DEF SendRaResult, Cut, Abandon, Forget
<1>9. CASE SampleRemoteComputation(r)
  BY <1>9 DEF SampleRemoteComputation
<1>10. CASE DestructRaContext(r)
  BY <1>10 DEF DestructRaContext
<1> QED
  BY <1>1, <1>2, <1>3, <1>4, <1>5, <1>6, <1>7, <1>8, <1>9, <1>10 DEF Advance

\* Every request keeps what is known of its run.
LEMMA OwnStep == ASSUME Inv, NEW r \in Run, Start(r) \/ Advance(r) PROVE RunInv(r)'
<1>0. RunInv(r)
  BY DEF Inv
<1> USE <1>0, RaAssumption DEF Inv, TypeOK, RunInv, Begun, Quoted, Accepted, Told, MayQuote,
         GoTo, session, observed
<1>1. CASE Start(r)
  BY <1>1 DEF Start
<1>2. CASE InitializeRa(r)
  BY <1>2 DEF InitializeRa, Fail, Cut, Abandon, Forget
<1>3. CASE ProcessSessionKeys(r)
  BY <1>3 DEF ProcessSessionKeys, Abandon, Forget
<1>4. CASE GetQuote(r)
  BY <1>4 DEF GetQuote, Fail, Cut, Abandon, Forget, Receive
<1>5. CASE SendQuoteToMaa(r)
  BY <1>5 DEF SendQuoteToMaa, Fail, Cut, Abandon, Forget, MaaVouches
<1>6. CASE ProcessRaReport(r)
  <2>1. /\ quote[r] \in Quote /\ MayQuote(quote[r])
        /\ ~result[r] /\ secrets[r] = None
    BY <1>6 DEF ProcessRaReport
  <2>2. CASE Cut(r) /\ UNCHANGED result
    BY <1>6, <2>1, <2>2 DEF ProcessRaReport, Cut, Forget
  <2>3. CASE UNCHANGED <<ga, quote>> /\ ~ (Cut(r) /\ UNCHANGED result)
    <3>1. result'[r] => IdentityFits(Identity[quote[r].enclave], Identity[quote[r].enclave])
                        /\ ReportDataMatches(r)
      BY <1>6, <2>3 DEF ProcessRaReport
    <3>2. quote[r].enclave \in Enclave
      BY <2>1 DEF Quote
    <3>3. result'[r] => /\ quote[r].enclave \in Expected
                        /\ quote[r].ga = ga[r] /\ quote[r].gb = r
      BY <3>1, <3>2 DEF IdentityFits, ReportDataMatches, Expected, Fits
    <3>4. pc[r] = "report" /\ pc'[r] \in {"bench", "tell"}
      BY <1>6, <2>3 DEF ProcessRaReport
    <3>5. UNCHANGED <<ctx, ga, quote, secrets, told>>
      BY <1>6, <2>3 DEF ProcessRaReport
    <3> QED
      BY <2>1, <3>3, <3>4, <3>5
  <2> QED
    BY <1>6, <2>2, <2>3 DEF ProcessRaReport
<1>7. CASE RunBenchmark(r)
  BY <1>7 DEF RunBenchmark, Cut, Forget
<1>8. CASE SendRaResult(r)
  <2>1. CASE result[r] /\ <<ctx[r], result[r]>> \in told' /\ GoTo(r, "compute")
             /\ UNCHANGED <<ga, quote>>
    <3>1. result[r] = TRUE
      BY <2>1
    <3>2. <<ctx[r], TRUE>> \in told'
      BY <2>1, <3>1
    <3> QED
      BY <1>8, <2>1, <3>2 DEF SendRaResult
  <2>2. CASE Abandon(r) \/ Cut(r)
    BY <1>8, <2>2 DEF SendRaResult, Cut, Abandon, Forget
  <2> QED
    BY <1>8, <2>1, <2>2 DEF SendRaResult
<1>9. CASE SampleRemoteComputation(r)
  BY <1>9 DEF SampleRemoteComputation
<1>10. CASE DestructRaContext(r)
  BY <1>10 DEF DestructRaContext
<1> QED
  BY <1>1, <1>2, <1>3, <1>4, <1>5, <1>6, <1>7, <1>8, <1>9, <1>10 DEF Advance

\* What each run knows is kept by the requests of all: results told are never taken back.
LEMMA RunInvStep == ASSUME Inv, NEW r \in Run, Start(r) \/ Advance(r)
                    PROVE  \A s \in Run : RunInv(s)'
<1> SUFFICES ASSUME NEW s \in Run \ {r} PROVE RunInv(s)'
  BY OwnStep
<1>1. RunInv(s)
  BY DEF Inv
<1> QED
  BY <1>1, OthersStep, ZenonT(40) DEF RunInv, Begun, Quoted, Accepted, Told

-----------------------------------------------------------------------------
\* The safety properties.

\* Secrets leave in one request only, under the key of an accepted quote.
LEMMA SecretsStep == ASSUME Inv, NEW r \in Run, Start(r) \/ Advance(r)
                     PROVE  SecretsReachTheEnclave'
<1> SUFFICES ASSUME NEW s \in Run, secrets'[s] # None
             PROVE  /\ secrets'[s] \in Expected
                    /\ quote'[s] = [enclave |-> secrets'[s], ga |-> secrets'[s], gb |-> s]
  BY DEF SecretsReachTheEnclave
<1>1. RunInv(s) /\ TypeOK /\ SecretsReachTheEnclave
  BY DEF Inv
<1>2. CASE secrets'[s] = secrets[s] /\ quote'[s] = quote[s]
  BY <1>1, <1>2 DEF SecretsReachTheEnclave
<1>3. CASE s = r /\ SampleRemoteComputation(r) /\ secrets[r] = None
  <2>1. secrets'[r] = ga[r] /\ quote'[r] = quote[r] /\ pc[r] = "compute"
    BY <1>1, <1>3 DEF SampleRemoteComputation, TypeOK, session
  <2>2. /\ quote[r] \in Quote /\ quote[r].enclave \in Expected
        /\ quote[r].ga = ga[r] /\ quote[r].gb = r /\ MayQuote(quote[r])
    BY <1>1, <1>3, <2>1 DEF TypeOK, RunInv, Quoted, Accepted, Told
  <2>3. ga[r] = quote[r].enclave
    BY <2>2 DEF MayQuote
  <2> QED
    BY <1>3, <2>1, <2>2, <2>3 DEF Quote
<1>4. secrets[s] # None => pc[s] \in {"destruct", "end"}
  BY <1>1 DEF RunInv, Told
<1>5. s = r /\ ~ SampleRemoteComputation(r) => secrets'[s] = secrets[s]
  BY DEF Start, Advance, InitializeRa, ProcessSessionKeys, GetQuote, SendQuoteToMaa,
         ProcessRaReport, RunBenchmark, SendRaResult, DestructRaContext, observed
<1>6. s = r /\ SampleRemoteComputation(r) => secrets[r] = None
  BY <1>4 DEF SampleRemoteComputation
<1>7. s = r /\ secrets[r] # None => quote'[r] = quote[r]
  BY <1>4 DEF Start, Advance, InitializeRa, ProcessSessionKeys, GetQuote, SendQuoteToMaa,
         ProcessRaReport, RunBenchmark, SendRaResult, SampleRemoteComputation,
         DestructRaContext, session
<1> QED
  BY <1>2, <1>3, <1>5, <1>6, <1>7, OthersStep

\* A context gets its run before there is anything to tell, and a result is told by a run that
\* has it.
LEMMA ResultStep == ASSUME Inv, NEW r \in Run, Start(r) \/ Advance(r) PROVE ResultComesFirst'
<1>1. TypeOK /\ ResultComesFirst /\ \A s \in Run : RunInv(s)
  BY DEF Inv
<1>2. ASSUME NEW s \in Run, result[s] PROVE result'[s] /\ ctx'[s] = ctx[s]
  <2>1. s = r => pc[r] \in {"bench", "tell", "compute", "destruct", "end"}
    BY <1>1, <1>2 DEF RunInv, Accepted
  <2>2. s = r => result' = result /\ ctx' = ctx
    BY <2>1 DEF Start, Advance, InitializeRa, ProcessSessionKeys, GetQuote, SendQuoteToMaa,
         ProcessRaReport, RunBenchmark, SendRaResult, SampleRemoteComputation,
         DestructRaContext, session
  <2> QED
    BY <1>2, <2>2, OthersStep
<1>3. ASSUME NEW c \in Context, <<c, TRUE>> \in told' \ told PROVE ctx'[r] = c /\ result'[r]
  <2>1. SendRaResult(r)
    BY <1>3 DEF Start, Advance, InitializeRa, ProcessSessionKeys, GetQuote, SendQuoteToMaa,
         ProcessRaReport, RunBenchmark, SampleRemoteComputation, DestructRaContext, observed,
         Fail, Receive
  <2>2. <<c, TRUE>> = <<ctx[r], result[r]>> /\ ctx' = ctx /\ result' = result
    BY <1>3, <2>1 DEF SendRaResult
  <2> QED
    BY <2>2
<1>4. ASSUME NEW s \in Run, secrets'[s] # None PROVE <<ctx'[s], TRUE>> \in told'
  <2>1. CASE secrets[s] # None
    <3>1. s = r => pc[r] \in {"destruct", "end"}
      BY <1>1, <2>1 DEF RunInv, Told
    <3>2. s = r => ctx' = ctx
      BY <3>1 DEF Start, Advance, InitializeRa, ProcessSessionKeys, GetQuote, SendQuoteToMaa,
         ProcessRaReport, RunBenchmark, SendRaResult, SampleRemoteComputation,
         DestructRaContext, session
    <3>3. ctx'[s] = ctx[s] /\ told \subseteq told'
      BY <3>2, OthersStep
    <3>4. <<ctx[s], TRUE>> \in told
      BY <1>1, <2>1 DEF ResultComesFirst
    <3> QED
      BY <3>3, <3>4
  <2>2. CASE secrets[s] = None
    <3>1. s = r /\ SampleRemoteComputation(r)
      BY <1>4, <2>2, OthersStep DEF Start, Advance, InitializeRa, ProcessSessionKeys, GetQuote,
         SendQuoteToMaa, ProcessRaReport, RunBenchmark, SendRaResult, DestructRaContext, observed
    <3>2. ctx' = ctx /\ told' = told /\ pc[r] = "compute"
      BY <3>1 DEF SampleRemoteComputation, session
    <3> QED
      BY <1>1, <3>1, <3>2 DEF RunInv, Told
  <2> QED
    BY <2>1, <2>2
<1>5. \A c \in Context : <<c, TRUE>> \in told' => \E s \in Run : ctx'[s] = c /\ result'[s]
  BY <1>1, <1>2, <1>3 DEF ResultComesFirst
<1> QED
  BY <1>4, <1>5 DEF ResultComesFirst

LEMMA InvStep == Inv /\ [Next]_vars => Inv'
<1> SUFFICES ASSUME Inv, [Next]_vars PROVE Inv'
  OBVIOUS
<1>1. CASE \E r \in Run : Start(r) \/ Advance(r)
  BY <1>1, TypeStep, RunInvStep, SecretsStep, ResultStep DEF Inv
<1>2. CASE UNCHANGED vars
  BY <1>2 DEF vars, session, observed, Inv, TypeOK, RunInv, Begun, Quoted, Accepted, Told,
     SecretsReachTheEnclave, ResultComesFirst
<1> QED
  BY <1>1, <1>2 DEF Next

LEMMA Invariance == Spec => []Inv
  BY InvInit, InvStep, PTL DEF Spec

\* There is a context, a key and a quote whenever a request needs them.
THEOREM TypeCorrect == Spec => []TypeOK
  BY Invariance, PTL DEF Inv

\* No server gets secrets to any but an expected enclave: whatever it mixes, the key of the
\* quote that MAA vouched for and that do_RA accepted is the key the secrets leave under.
THEOREM SecretsReach == Spec => []SecretsReachTheEnclave
  BY Invariance, PTL DEF Inv

\* No secrets without a positive result that the server has, and none but from a run that
\* accepted.
THEOREM ResultsFirst == Spec => []ResultComesFirst
  BY Invariance, PTL DEF Inv
=============================================================================
