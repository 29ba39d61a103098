------------------------------ MODULE Behavior ------------------------------
(***************************************************************************)
(* Drift detection, crates/arbiter-behavior: what a call does, what the    *)
(* session said it would do, and whether the two agree.                    *)
(*                                                                         *)
(* Abstracted: a tool name is the sequence of its words and of the marks   *)
(* between them ("get_deleteFile" is get, _, delete, File; words that      *)
(* touch never spell a third), an intent the set of its words, the         *)
(* arguments a function from keys to values [kind, text, number, long].    *)
(***************************************************************************)
EXTENDS Integers, Sequences

CONSTANTS
    None,
    LowerOf,            \* the lower-case form of each capitalised word
    SuspiciousTexts,    \* texts that hold one of suspicious_arg_patterns
    SuspiciousKeys,     \* keys that hold one of SUSPICIOUS_ARG_KEY_FRAGMENTS
    EscalateToDeny      \* escalate_to_deny of the configuration

ReadIntentKeywords ==
    {"read", "analyze", "summarize", "review", "inspect", "view", "check", "list", "search",
     "query", "describe", "explain"}
WriteIntentKeywords ==
    {"write", "create", "update", "modify", "edit", "deploy", "build", "generate", "publish", "upload"}
AdminIntentKeywords ==
    {"admin", "manage", "configure", "setup", "install", "maintain", "operate", "provision"}

(* The highest tier a word of the intent belongs to. *)
classify_intent(intent) ==
    IF intent \cap AdminIntentKeywords # {} THEN "Admin"
    ELSE IF intent \cap WriteIntentKeywords # {} THEN "Write"
    ELSE IF intent \cap ReadIntentKeywords # {} THEN "Read"
    ELSE "Unknown"

----------------------------------------------------------------------------
ReadMethods ==
    {<<"resources", "/", "read">>, <<"resources", "/", "subscribe">>, <<"completion", "/", "complete">>}
AdminTokens == {"admin", "manage", "configure", "grant", "revoke"}
DeleteTokens == {"delete", "remove", "drop", "purge"}
ReadTokens ==
    {"read", "get", "list", "search", "view", "describe", "fetch", "query", "analyze", "summarize",
     "report", "calculate", "compute", "check", "inspect", "review"}

(* str::to_lowercase of one word. *)
LowerToken(t) == IF t \in DOMAIN LowerOf THEN LowerOf[t] ELSE t

(* The characters a name is split on. *)
Delimiters == {"_", "-", ".", "/", " "}

(* A needle is found where it is a token of its own, from one delimiter or *)
(* end of the name to the next.                                            *)
contains_any_token(tool, needles) ==
    \E i \in DOMAIN tool :
        /\ LowerToken(tool[i]) \in needles
        /\ \A j \in {i - 1, i + 1} \cap DOMAIN tool : tool[j] \in Delimiters

(* Faulty variant: the mildest token decides. *)
classify_by_mildest(q) ==
    IF q.method \in ReadMethods \/ q.tool_name = None THEN "Read"
    ELSE IF contains_any_token(q.tool_name, ReadTokens) THEN "Read"
    ELSE IF contains_any_token(q.tool_name, DeleteTokens) THEN "Delete"
    ELSE IF contains_any_token(q.tool_name, AdminTokens) THEN "Admin"
    ELSE "Write"

(* The gravest token of the name decides; a name without any is a write.   *)
classify_operation(q) ==
    IF q.method \in ReadMethods \/ q.tool_name = None THEN "Read"
    ELSE IF contains_any_token(q.tool_name, AdminTokens) THEN "Admin"
    ELSE IF contains_any_token(q.tool_name, DeleteTokens) THEN "Delete"
    ELSE IF contains_any_token(q.tool_name, ReadTokens) THEN "Read"
    ELSE "Write"

----------------------------------------------------------------------------
(* An unclassified intent agrees with nothing. *)
Drifts(tier, operation) ==
    \/ tier = "Unknown"
    \/ tier = "Admin" /\ operation = "Delete"
    \/ tier = "Write" /\ operation = "Admin"
    \/ tier = "Read" /\ operation # "Read"

(* check_structural_anomalies, of the arguments at the top level. *)
check_structural_anomalies(arguments) ==
    \E key \in DOMAIN arguments :
        \/ arguments[key].kind \in {"object", "array"}
        \/ key \in SuspiciousKeys
        \/ arguments[key].kind = "string" /\ arguments[key].long

SuspiciousArguments(arguments) ==
    \/ \E key \in DOMAIN arguments : arguments[key].text \in SuspiciousTexts
    \/ check_structural_anomalies(arguments)

(* detect_with_args does not answer Normal. *)
Anomalous(intent, q) ==
    \/ Drifts(classify_intent(intent), classify_operation(q))
    \/ q.arguments # None /\ SuspiciousArguments(q.arguments)

(* detect_behavioral_anomalies: the requests flagged.  A flag that denies  *)
(* ends the walk.                                                          *)
Flagged(intent, requests) ==
    LET anomalous == {i \in DOMAIN requests : Anomalous(intent, requests[i])}
    IN  {i \in anomalous : EscalateToDeny => \A j \in anomalous : i <= j}

AnomalyDenies(intent, requests) == EscalateToDeny /\ Flagged(intent, requests) # {}
=============================================================================
