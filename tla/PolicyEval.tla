----------------------------- MODULE PolicyEval -----------------------------
(***************************************************************************)
(* The authorization engine, crates/arbiter-policy/src/model.rs and        *)
(* eval.rs: which policies match a request, which of them decides, and     *)
(* which configurations are loaded at all.                                 *)
(*                                                                         *)
(* Abstracted: a name (of a tool or a method) is the sequence of its words *)
(* and marks; an intent is its set of words and a regex the words it looks *)
(* for; a URI prefix is the set of URIs it covers; the arguments are a     *)
(* function from dotted paths to values [kind, text, number, long].        *)
(***************************************************************************)
EXTENDS Integers, Sequences, FiniteSets

CONSTANTS
    None,       \* Option::None
    LowerOf     \* the lower-case form of each capitalised word

(* str::to_lowercase *)
Lower(name) ==
    [i \in DOMAIN name |-> IF name[i] \in DOMAIN LowerOf THEN LowerOf[name[i]] ELSE name[i]]

Star == <<"*">>
ToolsCall == <<"tools", "/", "call">>
MAX_PRIORITY == 1000

(* A policy with no criteria at all; the configurations are written as     *)
(* changes to it.                                                          *)
AnyPolicy ==
    [id |-> "any", agent_id |-> None, trust_level |-> None, capabilities |-> {},
     sub |-> None, groups |-> {}, keywords |-> {}, regex |-> None,
     allowed_tools |-> {}, resource_match |-> {}, parameter_constraints |-> {},
     effect |-> "Deny", disposition |-> "Block", priority |-> 0]

----------------------------------------------------------------------------
(* Matching. *)

(* trust_level_gte, on ranks. *)
trust_level_gte(level, required) == level >= required

matches_agent(p, ctx) ==
    /\ p.agent_id \in {None, ctx.agent_id}
    /\ p.trust_level # None => trust_level_gte(ctx.trust_level, p.trust_level)
    /\ p.capabilities \subseteq ctx.capabilities

matches_principal(p, ctx) ==
    /\ p.sub \in {None, ctx.principal_sub}
    /\ p.groups # {} => p.groups \cap ctx.principal_groups # {}

(* All keywords, and the regex if there is one.  An invalid regex, which   *)
(* compile refuses, matches nothing.                                       *)
matches_intent(p, intent) ==
    /\ p.keywords \subseteq intent
    /\ p.regex # None => p.regex.valid /\ p.regex.words \cap intent # {}

matches_resource_uri(p, q) ==
    p.resource_match # {} =>
        q.resource_uri # None /\ \E prefix \in p.resource_match : q.resource_uri \in prefix

(* No tools, or "*": any request.  A tool by its name, whatever its case;  *)
(* a call without a valid name matches nothing; other methods by name.     *)
matches_tool(p, q) ==
    IF p.allowed_tools = {} \/ Star \in p.allowed_tools THEN matches_resource_uri(p, q)
    ELSE IF q.tool_name # None THEN Lower(q.tool_name) \in {Lower(t) : t \in p.allowed_tools}
    ELSE /\ q.method # ToolsCall
         /\ q.method \in p.allowed_tools
         /\ matches_resource_uri(p, q)

Numeric(c) == c.max_value # None \/ c.min_value # None

(* A constrained parameter must be there, be of the kind its constraint    *)
(* speaks about, and be within it.                                         *)
matches_parameter_constraints(p, q) ==
    \A c \in p.parameter_constraints :
        /\ q.arguments # None
        /\ c.key \in DOMAIN q.arguments
        /\ LET v == q.arguments[c.key] IN
           /\ Numeric(c) =>
                /\ v.kind = "number"
                /\ c.max_value # None => v.number <= c.max_value
                /\ c.min_value # None => v.number >= c.min_value
           /\ c.allowed_values # {} => v.kind = "string" /\ v.text \in c.allowed_values

(* explain_mismatch gives no reason to skip the policy. *)
Matches(p, ctx, q) ==
    /\ matches_agent(p, ctx)
    /\ matches_principal(p, ctx)
    /\ matches_intent(p, ctx.declared_intent)
    /\ matches_tool(p, q)
    /\ matches_parameter_constraints(p, q)

----------------------------------------------------------------------------
(* The decision. *)

(* A set criterion weighs, a missing one does not. *)
If(present, weight) == IF present THEN weight ELSE 0

specificity(p) ==
    LET caps == Cardinality(p.capabilities) IN
    IF p.priority # 0 THEN p.priority
    ELSE If(p.agent_id # None, 100) + If(p.trust_level # None, 50)
         + 25 * (IF caps < 3 THEN caps ELSE 3)
         + If(p.sub # None, 40) + 20 * Cardinality(p.groups)
         + If(p.regex # None, 30) + 10 * Cardinality(p.keywords)

(* matching, sorted by falling specificity.  The sort is stable: of two    *)
(* equally specific policies the one listed first comes first.             *)
Before(config, i, j) ==
    \/ specificity(config[i]) > specificity(config[j])
    \/ specificity(config[i]) = specificity(config[j]) /\ i <= j

Matching(config, ctx, q) == {i \in DOMAIN config : Matches(config[i], ctx, q)}

FirstMatch(config, ctx, q) ==
    LET matching == Matching(config, ctx, q)
    IN  CHOOSE i \in matching : \A j \in matching : Before(config, i, j)

(* A link with a scope lets only that scope's names through. *)
Narrowed(ctx, q) ==
    LET name == IF q.tool_name # None THEN q.tool_name ELSE q.method
    IN  \E link \in ctx.delegation_chain : link # {} /\ name \notin link

(* evaluate_explained: a narrowed request is denied whatever matches;      *)
(* nothing that matches denies too.                                        *)
evaluate(config, ctx, q) ==
    IF Narrowed(ctx, q) \/ Matching(config, ctx, q) = {} THEN "Deny"
    ELSE LET p == config[FirstMatch(config, ctx, q)] IN
         IF p.effect # "Deny" THEN p.effect
         ELSE IF p.disposition = "Block" THEN "Deny" ELSE "Annotate"

(* Faulty variant: only the first request of a batch is judged. *)
MayContinueFirst(config, ctx, requests) ==
    evaluate(config, ctx, requests[1]) \in {"Allow", "Annotate"}

(* evaluate_mcp_policies: the first request of a batch that is denied or   *)
(* to be escalated stops it.                                               *)
MayContinue(config, ctx, requests) ==
    \A i \in DOMAIN requests : evaluate(config, ctx, requests[i]) \in {"Allow", "Annotate"}

----------------------------------------------------------------------------
(* Loading. *)

DistinctIds(config) ==
    \A i, j \in DOMAIN config : config[i].id = config[j].id => i = j

RegexValid(p) == p.regex # None => p.regex.valid

(* Faulty variant: a blanket Allow is let in with a warning. *)
CompilesWithWarning(config) ==
    /\ DistinctIds(config)
    /\ \A i \in DOMAIN config :
          /\ config[i].priority <= MAX_PRIORITY
          /\ config[i].regex # None => ~config[i].regex.too_long
          /\ RegexValid(config[i])

(* compile: Ok or Err. *)
Compiles(config) ==
    /\ DistinctIds(config)
    /\ \A i \in DOMAIN config :
          /\ config[i].priority <= MAX_PRIORITY
          /\ config[i].regex # None => ~config[i].regex.too_long
          /\ RegexValid(config[i])
          /\ ~(/\ config[i].effect = "Allow"
               /\ config[i].allowed_tools = {}
               /\ config[i].resource_match = {})

(* validate_toml of a text that parses: the errors it looks for. *)
ValidatesToml(config) ==
    DistinctIds(config) /\ \A i \in DOMAIN config : RegexValid(config[i])

(* Faulty variant: an empty list is taken for no tool. *)
tools_overlap_literally(a, b) == a \cap b # {}

(* tools_overlap: an empty list is every tool. *)
tools_overlap(a, b) == a = {} \/ b = {} \/ a \cap b # {}

(* validate_toml's warnings: pairs where a more specific policy with       *)
(* another effect shares tools with a less specific one.                   *)
ShadowWarnings(config) ==
    {<<hi, lo>> \in (DOMAIN config) \X (DOMAIN config) :
        /\ specificity(config[hi]) > specificity(config[lo])
        /\ config[hi].effect # config[lo].effect
        /\ tools_overlap(config[hi].allowed_tools, config[lo].allowed_tools)}
=============================================================================
