--------------------------- MODULE RequestContent ---------------------------
(***************************************************************************)
(* What the gateway does to one MCP request and its response:              *)
(* handle_request of crates/arbiter/src/handler.rs, stages 6 and 8 to 10.6, *)
(* over the parser, the policies, the drift detector and the credentials.  *)
(* Gateway has the same pipeline with the sessions, the trust levels and   *)
(* the audit sink's health, and leaves the content out; here the session   *)
(* is the one stage 7 fetched, and the content is everything.              *)
(*                                                                         *)
(* Policies are reloaded and credentials rotated between any two steps of  *)
(* a request: the pipeline is cut at its awaits, and what it read before   *)
(* one it uses after it.                                                   *)
(***************************************************************************)
EXTENDS PolicyWatcher

CONSTANTS
    MAX_BATCH_SIZE, ALLOWED_MCP_METHODS, InvalidTokens, DangerousUris,  \* McpParser
    SuspiciousTexts, SuspiciousKeys,                                    \* Behavior
    RefsIn, Secret, SecretLen, Inside,                                  \* Credentials
    Calls,              \* what comes in: a body, the values of the other headers, and
                        \* the session that stage 7 fetches for it, None without one
    HeaderContext,      \* the evaluation context of a caller without a session
    Providers,          \* the credentials the provider may hold
    Encodings,          \* the encodings in which the upstream echoes secrets
    Found,              \* the sensitive data its responses hold
    Forms               \* their Content-Encoding, and whether they are UTF-8 (unpacked)

VARIABLES
    escalate_to_deny,   \* of the detector's configuration
    credentials,    \* what the credential provider holds
    r               \* the request in flight

Mcp == INSTANCE McpParser
Drift == INSTANCE Behavior WITH EscalateToDeny <- escalate_to_deny
Cred == INSTANCE Credentials

ASSUME ContentAssumption ==
    /\ MAX_BATCH_SIZE \in Nat \ {0}
    /\ SecretLen \in [Secret -> Nat \ {0}]
    /\ \A s \in Secret : \A t \in Inside[s] : SecretLen[t] < SecretLen[s]
    /\ \A p \in Providers : \A ref \in DOMAIN p : p[ref] \in Secret
    /\ Found \subseteq SUBSET Cred!Sensitivity

vars == <<watcherVars, escalate_to_deny, credentials, r>>

(* The handler's local state; `seen' (the configurations published since   *)
(* the request came) and `outdated' (values that a rotation has put in the *)
(* place of a reference captured with another value) are history.          *)
Idle == [at |-> "idle"]

(* Stage 9.5b: of the headers, those that name credentials. *)
header_pairs(headers) == SelectSeq(headers, LAMBDA h : Cred!find_refs(h) # {})

Begin(call) ==
    [at |-> "policy", headers |-> header_pairs(call.headers), session |-> call.session,
     requests |-> Mcp!parse_mcp_body(call.body), policy |-> None,
     resolved |-> Cred!NothingResolved, sent |-> {}, forwarded |-> None,
     entry |-> None, seen |-> {policy_config}, outdated |-> {}]

Init ==
    /\ WatcherInit
    /\ escalate_to_deny \in BOOLEAN
    /\ credentials \in Providers
    /\ r = Idle

Name(q) == IF q.tool_name # None THEN q.tool_name ELSE q.method

(* Stage 6: what the audit entry says was called, the whole batch.         *)
tool_called(requests) == {Name(requests[i]) : i \in DOMAIN requests}

----------------------------------------------------------------------------
Replaced == [fragments |-> {}, findings |-> {}, headers |-> {}]

(* The entry is written and the answer sent; of the request, what the      *)
(* properties compare the answer with is kept.                             *)
Answer(answer) ==
    r' = [at |-> "answered", session |-> r.session, answer |-> answer, outdated |-> r.outdated]

(* deny: an error, and nothing of the upstream's. *)
deny == Answer(Replaced)

(* Stage 6 and the gate of 6.5: a body that is not MCP is refused while    *)
(* policies are loaded, and has neither session nor policy otherwise.      *)
receive(call) ==
    /\ r = Idle
    /\ LET q == Begin(call) IN
       IF q.requests # Mcp!NonMcp
       THEN r' = [q EXCEPT !.entry = tool_called(q.requests)]
       ELSE IF policy_config # None THEN UNCHANGED r
       ELSE r' = [q EXCEPT !.at = "upstream", !.session = None, !.forwarded = call.body]
    /\ UNCHANGED <<watcherVars, escalate_to_deny, credentials>>

(* Stage 8: the snapshot; without policies MCP traffic is denied. *)
policy_snapshot ==
    /\ r.at = "policy"
    /\ IF policy_config \in {None, <<>>} THEN deny
       ELSE r' = [r EXCEPT !.at = "evaluate", !.policy = policy_config]
    /\ UNCHANGED <<watcherVars, escalate_to_deny, credentials>>

(* build_eval_context, build_eval_context_from_header *)
EvalContext(q) == IF q.session # None THEN q.session.ctx ELSE HeaderContext

Intent(q) == q.session.ctx.declared_intent

(* Stages 8, 9 and 9.5a: the snapshot decides, then, for a session, the    *)
(* detector; the body that goes on is rebuilt from what was judged.        *)
evaluate_mcp_policies ==
    /\ r.at = "evaluate"
    /\ IF \/ ~MayContinue(r.policy, EvalContext(r), r.requests)
          \/ r.session # None /\ Drift!AnomalyDenies(Intent(r), r.requests)
       THEN deny
       ELSE r' = [r EXCEPT !.at = IF r.session # None THEN "body" ELSE "upstream",
                           !.policy = None,
                           !.forwarded = Mcp!to_canonical_body(r.requests)]
    /\ UNCHANGED <<watcherVars, escalate_to_deny, credentials>>

(* Stage 9: flags, though they do not deny, may have added up to a         *)
(* demotion, which ends the request (counted in Gateway).                  *)
demoted ==
    /\ r.at = "evaluate"
    /\ MayContinue(r.policy, EvalContext(r), r.requests)
    /\ r.session # None /\ Drift!Flagged(Intent(r), r.requests) # {}
    /\ deny
    /\ UNCHANGED <<watcherVars, escalate_to_deny, credentials>>

----------------------------------------------------------------------------
(* Stage 9.5b: the credentials. *)

(* find_refs of the body: those in the texts of its arguments. *)
BodyRefs(body) ==
    LET args == {body.items[i].arguments : i \in DOMAIN body.items} \ {None}
    IN  UNION {UNION {Cred!find_refs(a[k].text) : k \in DOMAIN a} : a \in args}

(* is_credential_authorized: an empty list authorises every reference.     *)
is_credential_authorized(session, ref) ==
    session.authorized_credentials = {} \/ ref \in session.authorized_credentials

(* What replace_refs does: the values put in, and those captured.  The     *)
(* request leaves once no header is waiting.                               *)
Inject(refs, waiting) ==
    IF ~Cred!Resolvable(refs, credentials) THEN deny
    ELSE r' = [r EXCEPT !.at = IF waiting = <<>> THEN "upstream" ELSE "headers",
                        !.headers = waiting,
                        !.sent = @ \cup Cred!Substituted(refs, credentials),
                        !.resolved = Cred!capture(@, refs, credentials),
                        !.outdated = @ \cup {credentials[ref] : ref \in
                            {k \in refs \cap DOMAIN r.resolved : credentials[k] # r.resolved[k]}}]

(* inject_credentials, first the body.  Only its references are held       *)
(* against the session's list.                                             *)
inject_body ==
    LET refs == BodyRefs(r.forwarded) IN
    /\ r.at = "body"
    /\ IF \E ref \in refs : ~is_credential_authorized(r.session, ref) THEN deny
       ELSE Inject(refs, r.headers)
    /\ UNCHANGED <<watcherVars, escalate_to_deny, credentials>>

(* inject_credentials, then one header after another, with the provider    *)
(* asked anew for each; after the last, stage 10: the request leaves.      *)
inject_header ==
    /\ r.at = "headers"
    /\ Inject(Cred!find_refs(Head(r.headers)), Tail(r.headers))
    /\ UNCHANGED <<watcherVars, escalate_to_deny, credentials>>

(* FileProvider::reload: the map is swapped under its lock. *)
reload_credentials(provider) ==
    /\ provider # credentials
    /\ credentials' = provider
    /\ UNCHANGED <<watcherVars, escalate_to_deny, r>>

----------------------------------------------------------------------------
(* The response. *)

(* A body that cannot be searched gives way to an error text.  The headers *)
(* stay, the Content-Encoding of the body that is gone among them.         *)
Supplant(resp) ==
    [resp EXCEPT !.packed = FALSE, !.utf8 = TRUE, !.fragments = {}, !.findings = {}]

(* Stage 10.4: with secrets out there a compressed body is unpacked, and   *)
(* its Content-Encoding removed; one that cannot be is replaced.  Without, *)
(* it is left as it is.                                                    *)
decompress(resp, secrets) ==
    IF secrets = {} \/ resp.encoding = "identity" THEN resp
    ELSE IF resp.encoding = "gzip" THEN [resp EXCEPT !.encoding = "identity", !.packed = FALSE]
    ELSE Supplant(resp)

(* The body is text to the gateway. *)
Readable(resp) == ~resp.packed /\ resp.utf8

(* Stages 10.4 and 10.5: what is left of the upstream's body. *)
Scrubbed(resp, secrets) ==
    LET plain == decompress(resp, secrets) IN
    IF secrets = {} THEN plain
    ELSE IF ~plain.utf8 THEN Supplant(plain)
    ELSE [plain EXCEPT !.fragments = Cred!scrub_response(@, secrets)]

(* Stage 10.6: restricted data over the session's ceiling is held back.    *)
HeldBack(resp, session) ==
    /\ session # None
    /\ Readable(resp)
    /\ Cred!Blocked(resp.findings, session.data_sensitivity_ceiling)

known_values == {r.resolved[ref] : ref \in DOMAIN r.resolved}

(* The upstream answers: it may echo whatever it was sent, and the body    *)
(* of what it says is scrubbed, classified, and passed on or blocked.  Of  *)
(* its headers only the x-arbiter- ones are taken out, and no header value *)
(* is looked into.                                                         *)
respond(resp) ==
    /\ r.at = "upstream"
    /\ LET out == Scrubbed(resp, known_values) IN
       IF HeldBack(out, r.session) THEN deny
       ELSE Answer([fragments |-> out.fragments, findings |-> out.findings, headers |-> out.headers])
    /\ UNCHANGED <<watcherVars, escalate_to_deny, credentials>>

(* No answer, or one over the size limit: an error instead. *)
upstream_fails ==
    /\ r.at = "upstream"
    /\ deny
    /\ UNCHANGED <<watcherVars, escalate_to_deny, credentials>>

(* The answer is on its way and the connection takes the next request.     *)
finish ==
    /\ r.at = "answered"
    /\ r' = Idle
    /\ UNCHANGED <<watcherVars, escalate_to_deny, credentials>>

(* What the upstream may say: secrets it was sent, in its body and as they *)
(* are in its headers, and other data.                                     *)
Responses(sent) ==
    {[fragments |-> {Cred!Whole(s, e) : s \in echoed}, findings |-> f,
      encoding |-> form.encoding, packed |-> form.encoding # "identity", utf8 |-> form.utf8,
      headers |-> {Cred!Whole(s, "direct") : s \in echoed}] :
        echoed \in SUBSET sent, e \in Encodings, f \in Found, form \in Forms}

RequestNext ==
    \/ \E call \in Calls : receive(call)
    \/ policy_snapshot \/ evaluate_mcp_policies \/ demoted
    \/ inject_body \/ inject_header
    \/ r.at = "upstream" /\ \E resp \in Responses(r.sent) : respond(resp)
    \/ upstream_fails \/ finish

(* What a request in flight has been under. *)
Witness ==
    r' = IF r.at \in {"idle", "answered"} THEN r ELSE [r EXCEPT !.seen = @ \cup {policy_config'}]

Next ==
    \/ RequestNext
    \/ \E p \in Providers : reload_credentials(p)
    \/ WatcherNext /\ Witness /\ UNCHANGED <<escalate_to_deny, credentials>>

Spec == Init /\ [][Next]_vars /\ WatcherFairness

----------------------------------------------------------------------------
(* Every variable has its type. *)
TypeOK ==
    /\ WatcherTypeOK
    /\ escalate_to_deny \in BOOLEAN
    /\ credentials \in Providers
    /\ r.at \in {"idle", "policy", "evaluate", "body", "headers", "upstream", "answered"}
    /\ r.at \notin {"idle", "answered"} =>
         /\ r.session \in {call.session : call \in Calls} \cup {None}
         /\ r.sent \cup r.outdated \subseteq Secret
         /\ known_values \subseteq Secret

(* An MCP request is with the upstream. *)
Judged == r.at = "upstream" /\ r.requests # Mcp!NonMcp

(* What an upstream finds in the body it is sent. *)
Forwarded == Mcp!parse_mcp_body(r.forwarded)

(* A policy lets q through, and no policy that matches is stronger. *)
Authorised(config, ctx, q) ==
    /\ ~Narrowed(ctx, q)
    /\ \E i \in Matching(config, ctx, q) :
          /\ config[i].effect # "Escalate"
          /\ config[i].effect = "Deny" => config[i].disposition = "Annotate"
          /\ \A j \in Matching(config, ctx, q) : specificity(config[j]) <= specificity(config[i])

(* Stage 8, handler.rs 842-944: of a batch that is sent upstream, every    *)
(* call is allowed by one and the same configuration, published while the  *)
(* request was in flight, however the policies were reloaded meanwhile.    *)
ForwardedIsAllowed ==
    Judged => \E config \in r.seen \ {None} :
                 \A i \in DOMAIN Forwarded : Authorised(config, EvalContext(r), Forwarded[i])

(* Stage 9.5a, context.rs 39-81: the body sent upstream, parsed again, is  *)
(* what the policies and the detector judged, call by call, whatever the   *)
(* client's body held besides.                                             *)
CanonicalIsWhatWasJudged == Judged => Forwarded = r.requests

(* A secret in an encoding the scrubber knows, or what it left of one.     *)
Unscrubbed(fragments) ==
    {f \in fragments : f.encoding \in Cred!ScrubbedEncodings \cup {"mangled"}}

(* Stages 9.5b and 10.5, inject.rs 61-159 and 298-333: of the secrets put  *)
(* into a request, in its body or any of its headers, no encoding the      *)
(* scrubber knows and no remainder is in the BODY that reaches the client, *)
(* even when the credentials are rotated while the request is in flight.   *)
(* Excepted is the value of a reference that is named in two places (the   *)
(* body and a header, or two headers) with a rotation in between: only     *)
(* the first value is captured.                                            *)
EchoScrubbed ==
    r.at = "answered" => \A f \in Unscrubbed(r.answer.fragments) : f.secret \in r.outdated

(* inject.rs 4-6, "Also scans response bodies to ensure credentials never  *)
(* leak back to the agent": no secret captured at injection is in what the *)
(* client gets, in the body or in a header.  The response's headers, which *)
(* handler.rs 1512-1540 passes on, are not scanned, so that the code does  *)
(* not keep this.                                                          *)
NothingInjectedComesBack ==
    r.at = "answered" =>
        \A f \in Unscrubbed(r.answer.fragments \cup r.answer.headers) : f.secret \in r.outdated

(* The words of a name, in lower case. *)
Words(name) == {Lower(name)[i] : i \in DOMAIN name}

(* No two words of the name touch, and none touches a mark that is not one *)
(* of the classifier's delimiters.                                         *)
WordsApart(name) ==
    \A i \in 1..(Len(name) - 1) : {name[i], name[i + 1]} \cap Drift!Delimiters # {}

(* Stage 9, classifier.rs 18-90: with escalation, a session that declared  *)
(* to read only has a tool called, alone or anywhere in a batch, only if a *)
(* word of its name reads and none administers or deletes, in upper or     *)
(* lower case, beside whichever delimiters.  Said of names whose words are *)
(* kept apart by those; of "get:delete" or "deleteFile" it is not true.    *)
ReadSessionsOnlyRead ==
    /\ Judged /\ escalate_to_deny /\ r.session # None
    /\ Drift!classify_intent(Intent(r)) = "Read"
    => \A i \in DOMAIN Forwarded :
          LET name == Forwarded[i].tool_name IN
          name # None /\ WordsApart(name) =>
              /\ Words(name) \cap (Drift!AdminTokens \cup Drift!DeleteTokens) = {}
              /\ Words(name) \cap Drift!ReadTokens # {}

(* The requests clients send, as the policies see them. *)
Probes == UNION {{q[i] : i \in DOMAIN q} : q \in {Mcp!parse_mcp_body(call.body) : call \in Calls}}
Contexts == {HeaderContext} \cup {s.ctx : s \in {call.session : call \in Calls} \ {None}}

Configs == {t.policies : t \in Texts}

(* A call is allowed only if some Allow policy names its tool in some      *)
(* spelling, or says "*", or covers its resource.                          *)
AllowsOnlyNamed(config) ==
    \A q \in Probes, ctx \in Contexts : evaluate(config, ctx, q) = "Allow" =>
        \E i \in DOMAIN config :
            /\ config[i].effect = "Allow"
            /\ \/ Star \in config[i].allowed_tools
               \/ Lower(Name(q)) \in {Lower(t) : t \in config[i].allowed_tools}
               \/ \E prefix \in config[i].resource_match : q.resource_uri \in prefix

AllowOnlyNamed == {c \in Configs : AllowsOnlyNamed(c)}

(* Loading and evaluation, model.rs 196-309 and eval.rs 353-412: under     *)
(* every configuration that is ever published, a call is allowed only if   *)
(* an Allow policy of it names that call.                                  *)
UnnamedIsDenied == policy_config \in AllowOnlyNamed \cup {None}

(* No errors, and a warning for every policy that is overruled, for a call *)
(* both policies name alike, by a stronger one of another effect.          *)
ValidatedFully(config) ==
    /\ ValidatesToml(config)
    /\ \A q \in Probes, ctx \in Contexts : \A j \in Matching(config, ctx, q) :
          LET i == FirstMatch(config, ctx, q)
              NamesAlike(k) == config[k].allowed_tools = {} \/ Name(q) \in config[k].allowed_tools
          IN  /\ specificity(config[i]) > specificity(config[j])
              /\ config[i].effect # config[j].effect
              /\ NamesAlike(i) /\ NamesAlike(j)
              => <<i, j>> \in ShadowWarnings(config)

ValidateFully == {c \in Configs : ValidatedFully(c)}

(* POST /policy/validate, model.rs 333-433: of every text that loads the   *)
(* validator reports no error, and it warns of the policies that lose.     *)
ValidatorAgrees == policy_config \in ValidateFully \cup {None}
=============================================================================
