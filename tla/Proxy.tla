------------------------------- MODULE Proxy --------------------------------
(***************************************************************************)
(* The plain proxy of crates/arbiter-proxy: the accept loop and its        *)
(* connection limit (server.rs), the middleware chain (middleware.rs) and  *)
(* handle_request (proxy.rs), which audits every request through the       *)
(* AuditSink.                                                              *)
(*                                                                         *)
(* A connection is a task: its request is cut at the awaits (the permit,   *)
(* the upstream, the response body, the pieces of the audit write), and    *)
(* the task is dropped where it stands when the client goes or the process *)
(* ends: a shutdown signal ends the accept loop and, with it, the process. *)
(*                                                                         *)
(* Abstracted: a request is its verb, its path and its session; a path is  *)
(* the segments after its slashes, each the pieces an encoded slash cuts   *)
(* it into, any of which may be empty; the headers a proxied request       *)
(* loses.                                                                  *)
(***************************************************************************)
EXTENDS AuditSink, SequencesExt

CONSTANTS
    BlockedPaths,       \* blocked_paths: the segments after each slash
    Requests,           \* what clients send
    MaxConnections      \* max_connections

(* A verb the default allowlist has (TRUE) or has not.  "health" stands    *)
(* for GET /health and GET /metrics.  A target is whole if the upstream's  *)
(* URL followed by it is a URI ("*" is not).                               *)
HttpRequests ==
    [kind: {"health", "proxied"}, verb: BOOLEAN, path: Seq(Seq(STRING)),
     session: SessionKey \cup {NoKey}, headers: BOOLEAN, whole: BOOLEAN]

ASSUME ProxyAssumption ==
    /\ Requests \subseteq HttpRequests
    /\ MaxConnections \in Nat \ {0}

VARIABLES
    conn,           \* conn[c]: what the task of connection c is doing
    issued,         \* history: requests that got past the health check
    answers         \* history: how many of them were answered since the start

proxyVars == <<conn, issued, answers>>
allVars == <<sinkVars, proxyVars>>

Closed == [step |-> "closed"]
Conns == [step: {"closed", "idle", "audit"}] \cup [step: {"upstream"}, req: Requests]

Init ==
    /\ SinkInit
    /\ conn = [c \in Writer |-> Closed]
    /\ issued = 0
    /\ answers = 0

----------------------------------------------------------------------------
(* The middleware chain. *)

(* percent_decode: an encoded slash cuts like a plain one. *)
percent_decode(path) == FlattenSeq(path)

(* The decoded path split at its slashes, the first of which leaves an     *)
(* empty segment; "." is dropped and ".." pops, the empty one too.         *)
Collapse(decoded) ==
    FoldLeft(LAMBDA segments, s : IF s = "." THEN segments
                                  ELSE IF s = ".." THEN SubSeq(segments, 1, Len(segments) - 1)
                                  ELSE Append(segments, s),
             <<>>, <<"">> \o decoded)

(* A path as text, "/" followed by the segments joined: its slashes and    *)
(* names one by one.                                                       *)
Text(segments) ==
    IF segments = <<>> THEN <<"/">>
    ELSE FlattenSeq([i \in DOMAIN segments |->
                        IF segments[i] = "" THEN <<"/">> ELSE <<"/", segments[i]>>])

(* replace("//", "/"): one pass, so that a slash that replaces two is not  *)
(* looked at again.                                                        *)
ReplaceDouble(text) ==
    FoldLeft(LAMBDA acc, t : IF t = "/" /\ acc.paired
                             THEN [acc EXCEPT !.paired = FALSE]
                             ELSE [text |-> Append(acc.text, t), paired |-> t = "/"],
             [text |-> <<>>, paired |-> FALSE], text).text

(* Faulty variant: the path is not decoded before it is collapsed. *)
normalize_undecoded(path) ==
    ReplaceDouble(Text(Collapse([i \in DOMAIN path |-> path[i][1]])))

(* normalize_path: decode once, collapse, replace. *)
normalize_path(path) == ReplaceDouble(Text(Collapse(percent_decode(path))))

(* An encoded NUL, which normalize_path refuses. *)
Nul == "%00"

(* PathBlocker compares the normalised and the raw path. *)
PathBlocked(path) ==
    \/ Nul \in Range(percent_decode(path))
    \/ \E b \in BlockedPaths :
          normalize_path(path) = Text(b) \/ path = [i \in DOMAIN b |-> <<b[i]>>]

(* MiddlewareChain::execute: method allowlist, path blocker, required      *)
(* headers; the first to reject ends it.                                   *)
Rejected(q) == ~q.verb \/ PathBlocked(q.path) \/ ~q.headers

----------------------------------------------------------------------------
(* Connections. *)

Go(c, to) == conn' = [conn EXCEPT ![c] = to]

(* The loop accepts a connection and its task gets a permit.  (A task that *)
(* waits for one has done nothing yet.)                                    *)
accept(c) ==
    /\ conn[c] = Closed
    /\ Cardinality({d \in Writer : conn[d] # Closed}) < MaxConnections
    /\ Go(c, [step |-> "idle"])
    /\ UNCHANGED <<sinkVars, issued, answers>>

(* finalize the entry and call AuditSink::write. *)
Audit(c, q, decision) ==
    /\ Go(c, [step |-> "audit"])
    /\ Call(c, [session |-> q.session, decision |-> decision, flagged |-> FALSE])
    /\ UNCHANGED <<boot, chain, lock, healthVars, stats, file, stray, historyVars, answers>>

(* A request that is not a health check; those are answered before         *)
(* anything is captured.                                                   *)
Arrives(c, q) ==
    /\ conn[c].step = "idle"
    /\ q.kind = "proxied"
    /\ issued < MaxWrites
    /\ issued' = issued + 1

health(c, q) ==
    /\ conn[c].step = "idle"
    /\ q.kind = "health"
    /\ UNCHANGED allVars

reject(c, q) ==
    /\ Arrives(c, q)
    /\ Rejected(q)
    /\ Audit(c, q, "deny")

forward(c, q) ==
    /\ Arrives(c, q)
    /\ ~Rejected(q)
    /\ q.whole
    /\ Go(c, [step |-> "upstream", req |-> q])
    /\ UNCHANGED <<sinkVars, answers>>

(* The upstream's URI cannot be built: handle_request returns the error,   *)
(* which ends the connection, with no answer and no entry.                 *)
parse_fails(c, q) ==
    /\ Arrives(c, q)
    /\ ~Rejected(q)
    /\ ~q.whole
    /\ Go(c, Closed)
    /\ UNCHANGED <<sinkVars, answers>>

(* The upstream call times out or fails, its body is too large, or it is   *)
(* collected: four exits, an entry on each.                                *)
upstream_done(c) ==
    /\ conn[c].step = "upstream"
    /\ Audit(c, conn[c].req, "allow")
    /\ UNCHANGED issued

(* Faulty variant: the answer does not wait for the audit write. *)
answer_at_once(c) ==
    /\ conn[c].step = "audit"
    /\ Go(c, [step |-> "idle"])
    /\ answers' = answers + 1
    /\ UNCHANGED <<sinkVars, issued>>

(* write has returned, Ok or Err: the client is answered and the           *)
(* connection kept alive.                                                  *)
answer(c) ==
    /\ conn[c].step = "audit"
    /\ At(c, "none")
    /\ Go(c, [step |-> "idle"])
    /\ answers' = answers + 1
    /\ UNCHANGED <<sinkVars, issued>>

(* The client is gone, or done: the task ends at whatever await it stands. *)
client_gone(c) ==
    /\ conn[c] # Closed
    /\ Go(c, Closed)
    /\ DropWrite(c)
    /\ UNCHANGED <<issued, answers>>

(* shutdown_signal, or a crash: the connections' tasks end where they      *)
(* stand.  The process is started again.                                   *)
restart ==
    /\ conn' = [c \in Writer |-> Closed]
    /\ sink_restart
    /\ answers' = 0
    /\ UNCHANGED issued

ConnNext(c) ==
    \/ \E q \in Requests : health(c, q) \/ reject(c, q) \/ forward(c, q) \/ parse_fails(c, q)
    \/ upstream_done(c)
    \/ answer(c)
    \/ client_gone(c)

Next ==
    \/ \E c \in Writer : accept(c) \/ ConnNext(c)
    \/ SinkNext /\ UNCHANGED proxyVars
    \/ restart

Spec == Init /\ [][Next]_allVars

----------------------------------------------------------------------------
(* Properties. *)

(* Every variable has its type. *)
TypeOK ==
    /\ SinkTypeOK
    /\ conn \in [Writer -> Conns]
    /\ issued \in 0..MaxWrites /\ answers \in Nat

(* handle_request audits on each of its exits that answers: nobody is      *)
(* answered, whether rejected, timed out, failed or served, before the     *)
(* write of the entry has ended.  What goes unrecorded was not answered    *)
(* either.                                                                 *)
EveryAnswerAudited == answers <= Len(outcomes)

(* What an upstream would take the path for, told without a stack: a       *)
(* segment stays unless some later stretch has more ".." than segments.    *)
Among(segments, names, from, to) ==
    Cardinality({k \in from..to : segments[k] \in names})
Resolve(segments) ==
    LET plain == {s \in Range(segments) : s \notin {".", ".."}}
        stays == {i \in DOMAIN segments :
                    /\ segments[i] \in plain
                    /\ \A j \in i+1..Len(segments) :
                          Among(segments, {".."}, i+1, j) <= Among(segments, plain, i+1, j)}
    IN  [n \in 1..Cardinality(stays) |->
            segments[CHOOSE i \in stays : Cardinality({k \in stays : k <= i}) = n]]

(* A doubled slash inside is one the blocker merges, as many upstreams do. *)
(* It does not merge one at the start, nor three in a row, and it does not *)
(* drop the last slash.                                                    *)
Unmerged(segments) ==
    \E i \in DOMAIN segments :
        segments[i] = "" /\ (i \in {1, Len(segments)} \/ segments[i + 1] = "")

(* A request for a blocked path does not reach the upstream, whatever the  *)
(* encoded slashes, dot segments and single doubled slashes it is spelt    *)
(* with.                                                                   *)
BlockedStaysOut ==
    \A c \in Writer : conn[c].step = "upstream" =>
        LET path == Resolve(percent_decode(conn[c].req.path)) IN
        Unmerged(path) \/ SelectSeq(path, LAMBDA s : s # "") \notin BlockedPaths

(* Why EveryAnswerAudited holds.  A task writes only while it audits, and  *)
(* Ended are those whose file write has ended, one outcome each, and which *)
(* have not been answered.                                                 *)
WritesWhileAuditing == \A c \in Writer : conn[c].step # "audit" => writing[c] = NotWriting

Ended ==
    {c \in Writer : conn[c].step = "audit" /\ writing[c].step \in {"none", "lookup", "count"}}
AnswersFollowOutcomes == answers + Cardinality(Ended) <= Len(outcomes)

ProxyInv ==
    /\ SinkInv
    /\ TypeOK
    /\ WritesWhileAuditing
    /\ AnswersFollowOutcomes
=============================================================================
