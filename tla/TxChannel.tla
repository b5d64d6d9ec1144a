----------------------------- MODULE TxChannel -----------------------------
(***************************************************************************)
(* How a signed batch reaches the exchange: nonces of the SDK, TxWebSocket *)
(* with its retries and its receive queue, the REST fallback, and what     *)
(* sign_and_send_batch does with each answer.  One batch at a time: the    *)
(* write lock is held from the first nonce to the answer (OrderLifecycle). *)
(*                                                                         *)
(* Nonces and batch numbers go round: a request does not stay in flight    *)
(* for more than BatchIds batches.                                         *)
(***************************************************************************)
EXTENDS Integers, Sequences, FiniteSets

CONSTANTS
    BatchIds,       \* bound: numbers told apart, 0..BatchIds-1
    NonceSpan,      \* bound: nonces told apart
    MaxOps,         \* bound: ops in a batch
    MaxTxFaults     \* bound: breaks, losses, refusals

ASSUME TxAssumption ==
    /\ {BatchIds, MaxOps} \subseteq Nat \ {0} /\ MaxTxFaults \in Nat
    /\ NonceSpan \in Nat /\ NonceSpan > BatchIds * MaxOps

VARIABLES
    srv,        \* external: the nonce the exchange accepts next
    ran,        \* external, history: how often it executed each batch
    flight,     \* external: requests on their way to it
    nonce,      \* nonce_manager: the nonce it gives next
    txUp,       \* TxWebSocket.is_connected
    listening,  \* its receive loop runs
    answers,    \* _recv_queue
    pc,         \* where sign_and_send_batch is
    batch,      \* the batch it sends
    noQuota,    \* _volume_quota_remaining <= 0
    warm,       \* the reconnect after the warmup is done
    doubt,      \* history: the nonces were read, or rolled back, while the
                \* exchange had taken or might still take the batch
    txFaults

exchange == <<srv, ran, flight>>
socket == <<txUp, listening, answers>>
txVars == <<srv, ran, flight, nonce, txUp, listening, answers, pc, batch,
            noQuota, warm, doubt, txFaults>>

Lost == [b |-> 0, code |-> "lost"]      \* the sentinel of a lost connection
Refusals == {"quota", "429", "rejected"}
Codes == Refusals \cup {"ok", "nonce"}
Waiting == {"first", "second", "third"}

\* Mutant: the count is not carried round.
NotRound(k, n) == k + n

Past(k, n) == (k + n) % NonceSpan

TxFault == txFaults < MaxTxFaults /\ txFaults' = txFaults + 1

TxInit ==
    /\ srv = 0 /\ ran = [b \in 0..(BatchIds - 1) |-> 0] /\ flight = {}
    /\ nonce = 0
    /\ txUp = TRUE /\ listening = TRUE /\ answers = <<>>
    /\ pc = "idle" /\ batch = [b |-> 0, first |-> 0, n |-> 0]
    /\ noQuota = FALSE /\ warm = FALSE /\ doubt = FALSE
    /\ txFaults = 0

-----------------------------------------------------------------------------
(* External: the exchange takes a batch whose nonces are the next ones,    *)
(* once; it may refuse it all the same.                                    *)

Verdicts(r) == (IF r.first = srv THEN {"ok"} ELSE {"nonce"}) \cup Refusals

Judge(r, code) ==
    /\ code \in Verdicts(r)
    /\ IF code \in Refusals THEN TxFault ELSE UNCHANGED txFaults
    /\ IF code = "ok"
       THEN /\ srv' = Past(srv, r.n)
            /\ ran' = [ran EXCEPT ![r.b] = @ + 1]
       ELSE UNCHANGED <<srv, ran>>

Request(here) == [b |-> batch.b, first |-> batch.first, n |-> batch.n, here |-> here]

\* The answer gets back on the connection the request came on, if it is the
\* one TxWebSocket is still listening to.
Execute(r, code) ==
    /\ Judge(r, code)
    /\ flight' = flight \ {r}
    /\ answers' = IF r.here /\ listening
                  THEN Append(answers, [b |-> r.b, code |-> code]) ELSE answers
    /\ UNCHANGED <<nonce, txUp, listening, pc, batch, noQuota, warm, doubt>>

Vanish(r) ==
    /\ ~r.here
    /\ flight' = flight \ {r}
    /\ UNCHANGED <<srv, ran, nonce, socket, pc, batch, noQuota, warm, doubt, txFaults>>

-----------------------------------------------------------------------------
(* TxWebSocket.                                                            *)

Gone(rs) == {[r EXCEPT !.here = FALSE] : r \in rs}

\* _recv_loop finds the connection closed.
ConnectionLost ==
    /\ listening /\ TxFault
    /\ listening' = FALSE /\ txUp' = FALSE
    /\ answers' = Append(answers, Lost)
    /\ flight' = Gone(flight)
    /\ UNCHANGED <<srv, ran, nonce, pc, batch, noQuota, warm, doubt>>

\* Mutant: the answers left from the old connection stay in the queue.
KeepAnswers == answers

DrainedAnswers == <<>>

\* connect: the old receive loop is stopped, the queue drained.
Connected == txUp' = TRUE /\ listening' = TRUE /\ answers' = DrainedAnswers
ConnectFails == TxFault /\ txUp' = FALSE /\ listening' = FALSE /\ UNCHANGED answers

\* Connect again and send the same transactions again, or go to REST.
Resend(next) ==
    \/ /\ Connected
       /\ pc' = next
       /\ flight' = Gone(flight) \cup {Request(TRUE)}
       /\ UNCHANGED txFaults
    \/ /\ ConnectFails
       /\ pc' = "rest"
       /\ flight' = Gone(flight)

\* 10 seconds without an answer.  The last try gives the connection up but
\* leaves its receive loop running.
AnswerTimeout ==
    /\ pc \in Waiting /\ answers = <<>>
    /\ IF pc # "third" THEN Resend("third")
       ELSE /\ pc' = "rest" /\ txUp' = FALSE
            /\ UNCHANGED <<flight, listening, answers, txFaults>>
    /\ UNCHANGED <<srv, ran, nonce, batch, noQuota, warm, doubt>>

TakeLost ==
    /\ pc \in Waiting /\ answers # <<>> /\ Head(answers) = Lost
    /\ IF pc = "first" THEN Resend("second")
       ELSE /\ pc' = "rest" /\ answers' = Tail(answers)
            /\ UNCHANGED <<flight, txUp, listening, txFaults>>
    /\ UNCHANGED <<srv, ran, nonce, batch, noQuota, warm, doubt>>

-----------------------------------------------------------------------------
(* sign_and_send_batch.                                                    *)

\* n ops are signed, those that fail give their nonce back; the batch goes
\* out on the WebSocket if it is connected, by REST otherwise, and one op
\* alone by REST when there is no quota.
Sign(n) ==
    LET b == (batch.b + 1) % BatchIds
    IN  /\ pc = "idle"
        /\ \A r \in flight : r.b # b
        /\ batch' = [b |-> b, first |-> nonce, n |-> IF noQuota THEN 1 ELSE n]
        /\ nonce' = Past(nonce, batch'.n)
        /\ ran' = [ran EXCEPT ![b] = 0]
        /\ IF txUp /\ ~noQuota
           THEN pc' = "first" /\ flight' = flight \cup {Request(TRUE)'}
           ELSE pc' = "rest" /\ UNCHANGED flight
        /\ UNCHANGED <<srv, socket, noQuota, warm, doubt, txFaults>>

\* hard_refresh_nonce asks the exchange.
HardRefresh ==
    /\ nonce' = srv'
    /\ doubt' = (flight' # {})

\* Mutant: a failed batch keeps its nonces.
NoRollback == UNCHANGED <<nonce, doubt>>

\* acknowledge_failure for each signed op, and nothing else.
Rollback ==
    /\ nonce' = batch.first
    /\ doubt' = (doubt \/ ran'[batch.b] > 0 \/ flight' # {})

\* Mutant: an answer that complains about the nonce changes nothing.
RefreshUnlessNonce(code) ==
    IF code = "nonce" THEN UNCHANGED <<nonce, doubt>> ELSE HardRefresh

RefreshAfter(code) == HardRefresh

Outcome(code) ==
    /\ pc' = "idle"
    /\ CASE code = "ok" -> UNCHANGED <<nonce, doubt>> /\ noQuota' \in BOOLEAN
         [] code = "429" -> Rollback /\ UNCHANGED noQuota
         [] code = "quota" -> RefreshAfter(code) /\ noQuota' = TRUE
         [] OTHER -> RefreshAfter(code) /\ UNCHANGED noQuota

TakeAnswer ==
    /\ pc \in Waiting /\ answers # <<>> /\ Head(answers) # Lost
    /\ answers' = Tail(answers)
    /\ UNCHANGED <<exchange, txUp, listening, batch, warm, txFaults>>
    /\ Outcome(Head(answers).code)

\* Mutant: the fallback signs the batch again.
Resigned == [Request(FALSE) EXCEPT !.first = nonce]

\* What goes to REST is what was signed for the WebSocket.
RestRequest == Request(FALSE)

\* REST answers, or raises, and the except branch refreshes (a 429 that comes
\* as an exception refreshes too, unlike one in an answer).  The refusal of
\* an op sent alone always raises.
RestSend(code, raised) ==
    /\ pc = "rest"
    /\ noQuota /\ code # "ok" => raised
    /\ Judge(RestRequest, code)
    /\ UNCHANGED <<flight, socket, batch, warm>>
    /\ Outcome(IF raised /\ code # "quota" THEN "raised" ELSE code)

\* market_making_loop, once, when the warmup is over.
WarmupReconnect ==
    /\ ~warm /\ pc \notin Waiting
    /\ warm' = TRUE
    /\ IF txUp THEN UNCHANGED <<socket, txFaults, flight>>
       ELSE /\ (Connected /\ UNCHANGED txFaults) \/ ConnectFails
            /\ flight' = Gone(flight)
    /\ UNCHANGED <<srv, ran, nonce, pc, batch, noQuota, doubt>>

-----------------------------------------------------------------------------

Executed == \E r \in flight : \E code \in Codes : Execute(r, code)
Signs == \E n \in 1..MaxOps : Sign(n)
RestSends == \E code \in Codes, raised \in BOOLEAN : RestSend(code, raised)

TxNext ==
    \/ Executed \/ \E r \in flight : Vanish(r)
    \/ ConnectionLost \/ AnswerTimeout \/ TakeLost
    \/ Signs \/ TakeAnswer \/ RestSends \/ WarmupReconnect

\* The event loop runs every task, the loop goes on sending, timers go off,
\* and what is in flight is executed or gone.
TxFairness ==
    /\ WF_txVars(Executed) /\ WF_txVars(AnswerTimeout) /\ WF_txVars(TakeLost)
    /\ WF_txVars(Signs) /\ WF_txVars(TakeAnswer) /\ WF_txVars(RestSends)
    /\ WF_txVars(WarmupReconnect)

TxSpec == TxInit /\ [][TxNext]_txVars /\ TxFairness

-----------------------------------------------------------------------------
(* Properties. *)

Nonces == 0..(NonceSpan - 1)

TxTypeOK ==
    /\ {srv, nonce} \subseteq Nonces
    /\ ran \in [0..(BatchIds - 1) -> 0..3]
    /\ \A r \in flight : r.b \in DOMAIN ran /\ r.first \in Nonces /\ r.n \in 1..MaxOps
    /\ {txUp, listening, noQuota, warm, doubt} \subseteq BOOLEAN
    /\ \A i \in DOMAIN answers : answers[i] = Lost \/ answers[i].code \in Codes
    /\ pc \in Waiting \cup {"idle", "rest"}
    /\ batch.b \in DOMAIN ran /\ batch.first \in Nonces /\ batch.n \in 0..MaxOps
    /\ txFaults \in 0..MaxTxFaults

\* A batch is sent up to four times (first try, after a lost connection,
\* after a timeout, by REST) and is executed at most once: the tries carry
\* the same nonces.
ExecutedOnce == \A b \in DOMAIN ran : ran[b] <= 1

\* What send_batch takes for the answer to its batch is one: no answer to a
\* batch before it, late or from a connection that is gone, is left for it.
AnswerIsOwn ==
    pc \in Waiting /\ answers # <<>> =>
        Head(answers) = Lost \/ Head(answers).b = batch.b

\* Between batches, with nothing in flight, the SDK's next nonce is the one
\* the exchange accepts (README.md:126).  Not so when the nonces were read
\* with the batch still in flight, or when a batch that had been executed by
\* an earlier try was answered 429: that branch does not read them again.
NonceInStep == pc = "idle" /\ flight = {} /\ ~doubt => nonce = srv

\* Nonces that are out of step do not stay so: the next batch is refused for
\* them, and that reads them again.
NonceHeals == (nonce # srv) ~> (nonce = srv)
=============================================================================
