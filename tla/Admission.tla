------------------------------ MODULE Admission ------------------------------
(***************************************************************************)
(* What stands before an offer and before a subscription: the webhook's    *)
(* HTTP handler (controller/server.go), Mutate and its eligibility tests   *)
(* (mutate.go, pkg/core/common/common.go), the NATS connector that sets up *)
(* stream and bucket on first use (pkg/connector/nats/nats.go), and the    *)
(* start of a stealer's worker (worker.go, cmd/stealer/main.go).           *)
(*                                                                         *)
(* Requests and stealers run the same connector code against one broker    *)
(* that may still be empty; pc says where each of them is.                 *)
(***************************************************************************)
EXTENDS Naturals, LabelMaps

CONSTANTS
  Reviews,       \* admission reviews, each served by a goroutine of net/http
  Workers,       \* stealer processes
  Samples,       \* what the API server may send, see SamplesAssumption
  FilterLabel,   \* NO_WORK_LOAD_STEAL_LABLE
  FailedLabel,   \* "StolenOneFailed"
  FalseValues,   \* the spellings of "false"
  IgnorePatterns,\* IGNORE_NAMESPACES, each [valid: is it a regular expression?,
                 \* matches: the namespaces its anchored form matches]
  SystemPatterns,\* K8SNamespaces, in the same form
  Budget         \* how often each of Kinds may happen

\* connect: NATS cannot be reached; stream, bucket: a call about the stream or
\* the bucket fails; subscribe: QueueSubscribe fails.
Kinds == {"connect", "stream", "bucket", "subscribe"}

\* sound: the HTTP request holds an AdmissionReview; decodes: its object does.
\* The deployed webhook is only sent creations of pods (deploy/donor/webhook.yaml);
\* the code takes jobs too, and everything else for possible.
ASSUME SamplesAssumption ==
  \A v \in Samples : /\ v.sound \in BOOLEAN /\ v.decodes \in BOOLEAN
                     /\ v.kind \in {"Pod", "Job", "Deployment"}
                     /\ v.operation \in {"CREATE", "UPDATE"}
ASSUME ProcessesAssumption == Reviews \cap Workers = {}
ASSUME BudgetAssumption == Budget \in [Kinds -> Nat]

Processes == Reviews \cup Workers

VARIABLES
  review,  \* per review: what it says; never changes
  pc,      \* per process: where it is
  answer,  \* per review: the response, "none" as long as there is none
  stream,  \* whether the work-queue stream exists
  bucket,  \* whether the key-value bucket exists
  left     \* what is left of the budget

vars == <<review, pc, answer, stream, bucket, left>>

ConnectorPCs == {"connect", "stream", "bucket", "create", "ready", "failed"}
PCs == ConnectorPCs \cup {"new", "mutate", "offer", "answered", "broken",
                          "listening", "deaf", "exited"}
Answers == {"none", "badrequest", "error", "allowed"}

Init == /\ review \in [Reviews -> Samples]
        /\ pc = [p \in Processes |-> IF p \in Reviews THEN "new" ELSE "connect"]
        /\ answer = [x \in Reviews |-> "none"]
        /\ stream \in BOOLEAN /\ bucket \in BOOLEAN
        /\ left = Budget

Fails(kind) == /\ left[kind] > 0
               /\ left' = [left EXCEPT ![kind] = @ - 1]
Free == UNCHANGED left
Goto(p, to) == pc' = [pc EXCEPT ![p] = to] /\ UNCHANGED review

------------------------------------------------------------------------------
(* Who may be stolen.                                                       *)

\* A label counts unless it says "false", in any spelling.
IsLabelExists(labels, name) ==
  name \in DOMAIN labels /\ labels[name] \notin FalseValues

\* Mutation of IsItIgnoredNamespace: a bad pattern ends the search.
IsItIgnoredNamespace_Stops(patterns, namespace) ==
  /\ \A pattern \in patterns : pattern.valid
  /\ \E pattern \in patterns : namespace \in pattern.matches

\* Patterns that are no regular expression are skipped; the order, that of a
\* Go map, does not matter.
IsItIgnoredNamespace(patterns, namespace) ==
  \E pattern \in patterns : pattern.valid /\ namespace \in pattern.matches

\* MergeUnique of the configured and the built-in namespaces.
IgnoredPatterns == IgnorePatterns \cup SystemPatterns

NotEligible(v) ==
  \/ IsLabelExists(v.labels, FilterLabel)
  \/ IsLabelExists(v.labels, FailedLabel)
Ignored(v) == IsItIgnoredNamespace(IgnoredPatterns, v.namespace)

------------------------------------------------------------------------------
(* The webhook.                                                             *)

Respond(x, what) == /\ answer' = [answer EXCEPT ![x] = what]
                    /\ Goto(x, "answered")

\* Mutation of Serve: the return after http.Error is missing.
Serve_NoReturn(x) ==
  /\ pc[x] = "new"
  /\ answer' = IF review[x].sound THEN answer ELSE [answer EXCEPT ![x] = "badrequest"]
  /\ Goto(x, "mutate")
  /\ Free /\ UNCHANGED <<stream, bucket>>

\* mutateHandler: a wrong content type, an unreadable body or something that is
\* no AdmissionReview is a bad request.
Serve(x) ==
  /\ pc[x] = "new"
  /\ IF review[x].sound THEN Goto(x, "mutate") /\ UNCHANGED answer
                        ELSE Respond(x, "badrequest")
  /\ Free /\ UNCHANGED <<stream, bucket>>

\* Mutate answers nil for what is not the creation of a pod or a job, although
\* it names deployments among the expected resources.
Expected(v) == v.kind \in {"Pod", "Job"} /\ v.operation = "CREATE"

\* mutateHandler writes the UID into that nil response: the goroutine panics
\* and net/http closes the connection.
NilResponse(x) ==
  /\ pc[x] = "mutate" /\ ~Expected(review[x])
  /\ Goto(x, "broken")
  /\ Free /\ UNCHANGED <<answer, stream, bucket>>

\* The decoder's error becomes the message of a response that allows nothing.
Undecodable(x) ==
  /\ pc[x] = "mutate" /\ Expected(review[x]) /\ ~review[x].decodes
  /\ Respond(x, "error")
  /\ Free /\ UNCHANGED <<stream, bucket>>

\* mutateResourceWrapper: allow what must not be stolen, or go for NATS.
Wrap(x) ==
  /\ pc[x] = "mutate" /\ Expected(review[x]) /\ review[x].decodes
  /\ IF NotEligible(review[x]) \/ Ignored(review[x])
     THEN Respond(x, "allowed")
     ELSE Goto(x, "connect") /\ UNCHANGED answer
  /\ Free /\ UNCHANGED <<stream, bucket>>

\* Mutation of Fallback: nil is returned on the connector's error.
Fallback_Nil(x) == /\ pc[x] = "failed" /\ Goto(x, "broken")
                   /\ Free /\ UNCHANGED <<answer, stream, bucket>>

\* The connector's error is answered with Allowed, its success with an offer
\* (from here on StealProtocol).
Fallback(x) == /\ pc[x] = "failed" /\ Respond(x, "allowed")
               /\ Free /\ UNCHANGED <<stream, bucket>>
Offer(x) == /\ pc[x] = "ready" /\ Goto(x, "offer")
               /\ Free /\ UNCHANGED <<answer, stream, bucket>>

------------------------------------------------------------------------------
(* GetNATSConnectJetStreamAndKeyValue, run by process p.                    *)

Connect(p) ==
  /\ pc[p] = "connect"
  /\ \/ Free /\ Goto(p, "stream")
     \/ Fails("connect") /\ Goto(p, "failed")
  /\ UNCHANGED <<answer, stream, bucket>>

\* AddStream of a stream that exists with this configuration succeeds.  The
\* caller ignores CreateJetStreamStream's error.
AddStream(p) ==
  /\ pc[p] = "stream"
  /\ \/ Free /\ stream' = TRUE
     \/ Fails("stream") /\ stream' \in {stream, TRUE}
  /\ Goto(p, "bucket") /\ UNCHANGED <<answer, bucket>>

\* Mutation of GetBucket: a bucket that is not found is taken for found.
GetBucket_NoCreate(p) ==
  /\ pc[p] = "bucket"
  /\ \/ Free /\ Goto(p, "ready")
     \/ Fails("bucket") /\ Goto(p, "failed")
  /\ UNCHANGED <<answer, stream, bucket>>

\* CreateOrGetKeyValueStore looks the bucket up first.
GetBucket(p) ==
  /\ pc[p] = "bucket"
  /\ \/ bucket /\ Free /\ Goto(p, "ready")
     \/ ~bucket /\ Free /\ Goto(p, "create")
     \/ Fails("bucket") /\ Goto(p, "failed")
  /\ UNCHANGED <<answer, stream, bucket>>

\* Mutation of CreateBucket: it is an error that someone was faster.
CreateBucket_Exclusive(p) ==
  /\ pc[p] = "create"
  /\ \/ ~bucket /\ Free /\ bucket' = TRUE /\ Goto(p, "ready")
     \/ bucket /\ Free /\ UNCHANGED bucket /\ Goto(p, "failed")
     \/ Fails("bucket") /\ bucket' \in {bucket, TRUE} /\ Goto(p, "failed")
  /\ UNCHANGED <<answer, stream>>

\* CreateKeyValue of a bucket that has meanwhile been made, with the same
\* configuration, succeeds as well.
CreateBucket(p) ==
  /\ pc[p] = "create"
  /\ \/ Free /\ bucket' = TRUE /\ Goto(p, "ready")
     \/ Fails("bucket") /\ bucket' \in {bucket, TRUE} /\ Goto(p, "failed")
  /\ UNCHANGED <<answer, stream>>

------------------------------------------------------------------------------
(* The stealer's worker.                                                    *)

\* Start ignores the error of QueueSubscribe and sleeps for ever; without a
\* stream for its subject there is nothing to subscribe to.
Subscribe(w) ==
  /\ pc[w] = "ready"
  /\ \/ stream /\ Free /\ Goto(w, "listening")
     \/ ~stream /\ Free /\ Goto(w, "deaf")
     \/ Fails("subscribe") /\ Goto(w, "deaf")
  /\ UNCHANGED <<answer, stream, bucket>>

\* Mutation of Exit: Start returns without a word on stopChan.
Exit_Silent(w) == /\ pc[w] = "failed" /\ Goto(w, "deaf")
                  /\ Free /\ UNCHANGED <<answer, stream, bucket>>

\* The connector's error ends Start, Start's end ends main, and the container
\* is started again.
Exit(w) == /\ pc[w] = "failed" /\ Goto(w, "exited")
           /\ Free /\ UNCHANGED <<answer, stream, bucket>>
Restart(w) == /\ pc[w] = "exited" /\ Goto(w, "connect")
              /\ Free /\ UNCHANGED <<answer, stream, bucket>>

------------------------------------------------------------------------------
ConnectorStep(p) == Connect(p) \/ AddStream(p) \/ GetBucket(p) \/ CreateBucket(p)
ReviewStep(x)    == \/ Serve(x) \/ NilResponse(x) \/ Undecodable(x) \/ Wrap(x)
                    \/ ConnectorStep(x) \/ Fallback(x) \/ Offer(x)
WorkerStep(w)    == ConnectorStep(w) \/ Subscribe(w) \/ Exit(w) \/ Restart(w)

Next == \/ \E x \in Reviews : ReviewStep(x)
        \/ \E w \in Workers : WorkerStep(w)
Spec == Init /\ [][Next]_vars

\* Handlers and processes go on by themselves; nothing else is assumed.
FairSpec == /\ Spec
            /\ \A x \in Reviews : WF_vars(ReviewStep(x))
            /\ \A w \in Workers : WF_vars(WorkerStep(w))

------------------------------------------------------------------------------
\* The types of the variables; a handler that has written a response, and no
\* other, is at its end.
TypeOK == /\ review \in [Reviews -> Samples]
          /\ pc \in [Processes -> PCs]
          /\ answer \in [Reviews -> Answers]
          /\ \A x \in Reviews : pc[x] = "answered" <=> answer[x] # "none"
          /\ stream \in BOOLEAN /\ bucket \in BOOLEAN
          /\ left \in [Kinds -> Nat]

\* What a donor's operator means by the labels and IGNORE_NAMESPACES: a pod may
\* be stolen unless it carries one of the labels with a value other than
\* "false" or lives in a namespace that some pattern matches.
Stealable(v) ==
  /\ \A name \in {FilterLabel, FailedLabel} \cap DOMAIN v.labels : v.labels[name] \in FalseValues
  /\ v.namespace \notin UNION {p.matches : p \in {q \in IgnoredPatterns : q.valid}}

\* Nothing is offered to other clusters that must stay: not a pod of a system
\* namespace, whatever else is wrong with the configured patterns, and nothing
\* that did not decode as a new pod or job.
OnlyStealableOffered ==
  \A x \in Reviews : pc[x] = "offer" =>
     /\ review[x].sound /\ Expected(review[x]) /\ review[x].decodes
     /\ Stealable(review[x])

\* A pod that could be stolen is left at home only if NATS or the bucket failed
\* this or another process: that donors and stealers, all on their first use,
\* set up one stream and one bucket at the same time is no failure.
Failed(kind) == left[kind] < Budget[kind]
FallbackOnlyOnFailure ==
  \A x \in Reviews : answer[x] = "allowed" /\ Stealable(review[x]) =>
     Failed("connect") \/ Failed("bucket")

\* Who gets past the connector finds what it needs: the bucket always, the
\* stream unless a call about it failed, the error of which nobody looks at.
SetUp == {"ready", "offer", "listening", "deaf"}
ReadyIsSetUp ==
  \A p \in Processes : pc[p] \in SetUp => bucket /\ (stream \/ Failed("stream"))

\* Every request is answered or offered, whatever fails, but for the kinds and
\* operations on which the handler panics.
EveryReviewAnswered ==
  \A x \in Reviews : ~review[x].sound \/ Expected(review[x])
                       ~> pc[x] \in {"answered", "offer"}

\* A stealer gets to listen, through any number of exits and restarts, unless a
\* call fails whose error the code ignores.
StealerListens ==
  \A w \in Workers : <>(pc[w] = "listening" \/ Failed("stream") \/ Failed("subscribe"))
==============================================================================
