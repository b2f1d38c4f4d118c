-------------------------------- MODULE RaClient --------------------------------
(***************************************************************************)
(* The SGX relying party of benchmark/sgx/verify: do_RA asks a server for a*)
(* context and the key of an enclave, sends a key of its own, gets a quote,*)
(* has it checked by Microsoft Azure Attestation (MAA), checks it again    *)
(* itself, tells the server the result and then sends it secrets.          *)
(*                                                                         *)
(* The server is whatever answers on its port: it hands out any keys and   *)
(* any quotes that it can get.  Enclaves of the identity that the client   *)
(* requires keep their keys to themselves and quote nothing but their own  *)
(* key and a key they were sent; other enclaves do what the server wants.  *)
(* A secret shared by two keys is known to the owners of these keys only,  *)
(* and MAA tells the truth about quotes.                                   *)
(***************************************************************************)
EXTENDS Integers

CONSTANTS
    Run,           \* runs of the client; a run stands for the key pair that it generates
    Context,       \* RA contexts of the server
    Enclave,       \* enclaves; an enclave stands for its key pair
    Identity,      \* Identity[e]: MRENCLAVE, MRSIGNER, ISVSVN and ISV ProdID of an enclave
    Required,      \* the same, as the client's settings have them
    SkipMrenclave, \* SKIP_MRENCLAVE_CHECK of the settings
    HostKey,       \* a key pair that the server made outside of any enclave
    Forged,        \* a quote that no genuine machine made, or no quote at all
    None           \* not there yet

Identities == [mrenclave : {Identity[e].mrenclave : e \in Enclave} \cup {Required.mrenclave},
               mrsigner : {Identity[e].mrsigner : e \in Enclave} \cup {Required.mrsigner},
               svn : Nat, prod : Nat]

Fits(id) ==
    /\ SkipMrenclave \/ id.mrenclave = Required.mrenclave
    /\ id.mrsigner = Required.mrsigner
    /\ id.svn >= Required.svn
    /\ id.prod = Required.prod

\* Enclaves of the required identity.  One in debug mode, which the client does not look at, is
\* not meant: its keys are known to the server.
Expected == {e \in Enclave : Fits(Identity[e])}

Key == Enclave \cup {HostKey}
Quote == [enclave : Enclave, ga : Key, gb : Run \cup {HostKey}]

ASSUME RaAssumption ==
    /\ SkipMrenclave \in BOOLEAN
    /\ Identity \in [Enclave -> Identities]
    /\ HostKey \notin Enclave /\ HostKey \notin Run
    /\ Forged \notin Quote /\ None \notin Quote /\ None # Forged
    /\ None \notin Key /\ None \notin Context

VARIABLES
    pc,        \* pc[r]: the next request of a run
    bench,     \* bench[r]: BENCH=1
    ctx,       \* ctx[r]: the context received, or None
    ga,        \* ga[r]: the key received, or None
    quote,     \* quote[r]: the quote received, or None
    result,    \* result[r]: ra_result
    told,      \* results that were sent: contexts and verdicts
    secrets,   \* secrets[r]: the key that r sent its secrets under, or None
    destroyed, \* runs that asked for the destruction of their context
    cut        \* runs that ended because a peer was not reachable or sent nonsense

session == <<bench, ctx, ga, quote, result>>
observed == <<told, secrets, destroyed, cut>>
vars == <<pc, session, observed>>

Init ==
    /\ pc = [r \in Run |-> "off"]
    /\ bench \in [Run -> BOOLEAN]
    /\ ctx = [r \in Run |-> None] /\ ga = [r \in Run |-> None] /\ quote = [r \in Run |-> None]
    /\ result = [r \in Run |-> FALSE]
    /\ told = {} /\ secrets = [r \in Run |-> None] /\ destroyed = {} /\ cut = {}

GoTo(r, l) == pc' = [pc EXCEPT ![r] = l]

\* Only do_RA has the key and the quote; the key that the secrets are sent under outlives it.
Forget(r) == ga' = [ga EXCEPT ![r] = None] /\ quote' = [quote EXCEPT ![r] = None]

\* exit(1), or an exception that nobody catches: the context is left as it is.
Cut(r) == GoTo(r, "end") /\ Forget(r) /\ cut' = cut \cup {r}

\* do_RA returns -1, and main_process cleans up; a benchmark does when it ends.
Abandon(r) == GoTo(r, "destruct") /\ Forget(r) /\ UNCHANGED cut

Fail(r) == (Cut(r) \/ Abandon(r)) /\ UNCHANGED told

-----------------------------------------------------------------------------
Start(r) ==
    /\ pc[r] = "off"
    /\ GoTo(r, "init")
    /\ UNCHANGED <<session, observed>>

\* initialize_ra: the context is known as soon as the answer is read, whether a key follows or not.
InitializeRa(r) ==
    /\ pc[r] = "init"
    /\ \/ Fail(r) /\ UNCHANGED ctx
       \/ /\ \E c \in Context : ctx' = [ctx EXCEPT ![r] = c]
          /\ \/ Fail(r)
             \/ /\ \E k \in Key : ga' = [ga EXCEPT ![r] = k]
                /\ GoTo(r, "keys")
                /\ UNCHANGED <<quote, told, cut>>
    /\ UNCHANGED <<bench, result, secrets, destroyed>>

\* process_session_keys and generate_kdk fail on a key that is no point of the curve.
ProcessSessionKeys(r) ==
    /\ pc[r] = "keys"
    /\ Abandon(r) \/ (GoTo(r, "quote") /\ UNCHANGED <<ga, quote, cut>>)
    /\ UNCHANGED <<bench, ctx, result, told, secrets, destroyed>>

\* An expected enclave quotes its own key only. What else runs on the server may copy the report
\* data of any quote, VK and all.
MayQuote(q) == q.enclave \in Expected => q.ga = q.enclave

Receive(r, q) ==
    /\ quote' = [quote EXCEPT ![r] = q]
    /\ GoTo(r, "maa")
    /\ UNCHANGED <<ga, told, cut>>

\* Mutant of GetQuote: an error answer ends the program.
GetQuoteAndLeave(r) ==
    /\ pc[r] = "quote"
    /\ \/ Cut(r) /\ UNCHANGED told
       \/ GoTo(r, "end") /\ Forget(r) /\ UNCHANGED <<told, cut>>
       \/ \E q \in {x \in Quote : MayQuote(x)} \cup {Forged} : Receive(r, q)
    /\ UNCHANGED <<bench, ctx, result, secrets, destroyed>>

\* Mutant of GetQuote: the status of the answer is not looked at.
GetQuoteUnchecked(r) ==
    /\ pc[r] = "quote"
    /\ \/ Cut(r) /\ UNCHANGED told
       \/ \E q \in {x \in Quote : MayQuote(x)} \cup {Forged, None} : Receive(r, q)
    /\ UNCHANGED <<bench, ctx, result, secrets, destroyed>>

GetQuote(r) ==
    /\ pc[r] = "quote"
    /\ Fail(r) \/ \E q \in {x \in Quote : MayQuote(x)} \cup {Forged} : Receive(r, q)
    /\ UNCHANGED <<bench, ctx, result, secrets, destroyed>>

\* MAA vouches for a quote only if it is genuine and has the hash of the runtime data, which
\* get_quote made of ga, the client's own key and VK.
MaaVouches(r) == quote[r] \in Quote /\ quote[r].ga = ga[r] /\ quote[r].gb = r

SendQuoteToMaa(r) ==
    /\ pc[r] = "maa"
    /\ \/ Fail(r)
       \/ MaaVouches(r) /\ GoTo(r, "report") /\ UNCHANGED <<ga, quote, told, cut>>
    /\ UNCHANGED <<bench, ctx, result, secrets, destroyed>>

\* Mutant of IdentityFits: ISVSVN and ISV ProdID are looked at in the quote only.
IdentityFitsByQuote(id, jwt) ==
    /\ SkipMrenclave \/ (id.mrenclave = Required.mrenclave /\ jwt.mrenclave = Required.mrenclave)
    /\ id.mrsigner = Required.mrsigner /\ jwt.mrsigner = Required.mrsigner

\* verify_enclave: MRENCLAVE and MRSIGNER must be right in the quote and in the JWT; an ISVSVN
\* or ISV ProdID that is wrong in the quote is reported, and what counts is the JWT.
IdentityFits(id, jwt) ==
    /\ SkipMrenclave \/ (id.mrenclave = Required.mrenclave /\ jwt.mrenclave = Required.mrenclave)
    /\ id.mrsigner = Required.mrsigner /\ jwt.mrsigner = Required.mrsigner
    /\ jwt.svn >= Required.svn
    /\ jwt.prod = Required.prod

ReportDataMatches(r) == quote[r].ga = ga[r] /\ quote[r].gb = r

\* process_ra_report, whose JWT says what MAA found in the quote; the keys for the JWT may not
\* be had, or the JWT may not verify.
ProcessRaReport(r) ==
    /\ pc[r] = "report"
    /\ \/ Cut(r) /\ UNCHANGED result
       \/ /\ LET id == Identity[quote[r].enclave]
             IN  \E valid \in BOOLEAN : result' =
                    [result EXCEPT ![r] = valid /\ IdentityFits(id, id) /\ ReportDataMatches(r)]
          /\ GoTo(r, IF bench[r] THEN "bench" ELSE "tell")
          /\ UNCHANGED <<ga, quote, cut>>
    /\ UNCHANGED <<bench, ctx, told, secrets, destroyed>>

\* run_benchmark repeats the checks, and tee-anchor verify on the same quote; their verdicts
\* are not used, but an MAA that is not reachable ends the program.
RunBenchmark(r) ==
    /\ pc[r] = "bench"
    /\ Cut(r) \/ (GoTo(r, "tell") /\ UNCHANGED <<ga, quote, cut>>)
    /\ UNCHANGED <<bench, ctx, result, told, secrets, destroyed>>

\* Mutant of SendRaResult: an error answer is not looked at.
SendRaResultUnchecked(r) ==
    /\ pc[r] = "tell"
    /\ told' \in {told, told \cup {<<ctx[r], result[r]>>}}
    /\ \/ result[r] /\ ~bench[r] /\ GoTo(r, "compute") /\ UNCHANGED <<ga, quote, cut>>
       \/ (~result[r] \/ bench[r]) /\ Abandon(r)
    /\ UNCHANGED <<bench, ctx, result, secrets, destroyed>>

\* The server may take the result and its answer be lost.
SendRaResult(r) ==
    /\ pc[r] = "tell"
    /\ told' \in {told, told \cup {<<ctx[r], result[r]>>}}
    /\ \/ /\ result[r] /\ ~bench[r] /\ <<ctx[r], result[r]>> \in told'
          /\ GoTo(r, "compute")
          /\ UNCHANGED <<ga, quote, cut>>
       \/ Abandon(r)
       \/ Cut(r)
    /\ UNCHANGED <<bench, ctx, result, secrets, destroyed>>

\* sample_remote_computation: the two integers leave under SK, then the answer is looked at.
\* Without one, or with an unexpected status, the program ends at once.
SampleRemoteComputation(r) ==
    /\ pc[r] = "compute"
    /\ \/ GoTo(r, "destruct") /\ UNCHANGED <<secrets, cut>>
       \/ /\ secrets' = [secrets EXCEPT ![r] = ga[r]]
          /\ \/ GoTo(r, "destruct") /\ UNCHANGED cut
             \/ GoTo(r, "end") /\ cut' = cut \cup {r}
    /\ UNCHANGED <<session, told, destroyed>>

DestructRaContext(r) ==
    /\ pc[r] = "destruct"
    /\ destroyed' = destroyed \cup {r}
    /\ GoTo(r, "end")
    /\ UNCHANGED <<session, told, secrets, cut>>

Advance(r) ==
    \/ InitializeRa(r) \/ ProcessSessionKeys(r) \/ GetQuote(r) \/ SendQuoteToMaa(r)
    \/ ProcessRaReport(r) \/ RunBenchmark(r) \/ SendRaResult(r) \/ SampleRemoteComputation(r)
    \/ DestructRaContext(r)

Next == \E r \in Run : Start(r) \/ Advance(r)

Spec == Init /\ [][Next]_vars

\* A request is answered or times out.
FairSpec == Spec /\ \A r \in Run : WF_vars(Advance(r))

-----------------------------------------------------------------------------
\* Properties.

\* The type invariant; from the request to MAA on there is a key and a quote.
TypeOK ==
    /\ pc \in [Run -> {"off", "init", "keys", "quote", "maa", "report", "bench", "tell",
                       "compute", "destruct", "end"}]
    /\ bench \in [Run -> BOOLEAN] /\ result \in [Run -> BOOLEAN]
    /\ ctx \in [Run -> Context \cup {None}]
    /\ ga \in [Run -> Key \cup {None}]
    /\ quote \in [Run -> Quote \cup {Forged, None}]
    /\ told \subseteq (Context \X BOOLEAN)
    /\ secrets \in [Run -> Key \cup {None}]
    /\ destroyed \subseteq Run /\ cut \subseteq Run
    /\ \A r \in Run : pc[r] \in {"maa", "report", "bench", "tell", "compute"} =>
          ctx[r] # None /\ ga[r] # None /\ quote[r] # None

\* Secrets go to enclaves of the required identity in all four parts, under a key that the
\* enclave agreed on with this very run, whatever keys and quotes of other runs the server
\* mixes in (do_RA: MAA's verdict, verify_enclave and the order of requests).
SecretsReachTheEnclave ==
    \A r \in Run : secrets[r] # None =>
        /\ secrets[r] \in Expected
        /\ quote[r] = [enclave |-> secrets[r], ga |-> secrets[r], gb |-> r]

\* The server has a positive result for a context only from a run that accepted it, and gets
\* secrets only after that result (send_ra_result before sample_remote_computation).
ResultComesFirst ==
    /\ \A c \in Context : <<c, TRUE>> \in told => \E r \in Run : ctx[r] = c /\ result[r]
    /\ \A r \in Run : secrets[r] # None => <<ctx[r], TRUE>> \in told

\* Every run asks in the end for the destruction of its context, accepted or not, unless it was
\* cut off (main_process and the end of a benchmark).
ContextsAreDestroyed == \A r \in Run : pc[r] = "init" ~> (r \in destroyed \/ r \in cut)
=============================================================================
