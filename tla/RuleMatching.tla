----------------------------- MODULE RuleMatching -----------------------------
(***************************************************************************)
(* Which requests a rule is about, and how an operator makes a rule from a *)
(* request: the regular expressions and methods of rules, the server's     *)
(* search for the policies that have a matching rule, the patterns that    *)
(* SmartRuleBuilder proposes on the Logs and the Approvals page, and the   *)
(* rule form.  What a rule is attached to is PolicyStore's.                *)
(*                                                                         *)
(* A URL is a sequence of tokens: the scheme, "/", the host, the segments. *)
(* A pattern has the same tokens and those with a meaning: ^ $ . * and ?.  *)
(* A host stands for itself (its dots would match more).                   *)
(***************************************************************************)
EXTENDS PolicyStore, SequencesExt

CONSTANTS
  Request,               \* [method, url] of requests in the log or held
  Typed                  \* [pattern, methods] that operators write in the form

VARIABLES
  says,                  \* url_pattern and methods of each rule
  desk                   \* the open SmartRuleBuilder

matching == <<store, says, desk>>

-----------------------------------------------------------------------------
(* Regular expressions, as JavaScript's RegExp reads them; Go's regexp     *)
(* differs in taking a repeat after ^ or $.                                *)
Repeat == {"*", "?"}

(* "nothing to repeat": such a rule is skipped.  A ? after a repeat makes  *)
(* it lazy, which changes nothing of what matches.                         *)
Compiles(pattern) ==
  \A i \in DOMAIN pattern : pattern[i] \in Repeat =>
    /\ i > 1 /\ pattern[i - 1] \notin {"^", "$"}
    /\ pattern[i - 1] \in Repeat => pattern[i] = "?" /\ i > 2 /\ pattern[i - 2] \notin Repeat

(* Of a place k of a URL where what precedes token i has matched, the      *)
(* places where what ends with token i has; a token that says how often    *)
(* the one before is repeated is read with it.                             *)
EndsAt(pattern, url, i, k) ==
  LET t == pattern[i]
      times == IF i < Len(pattern) THEN pattern[i + 1] ELSE "once"
      most == CASE times = "*" -> Len(url) [] OTHER -> k + 1
      least == IF times \in Repeat THEN k ELSE k + 1
  IN CASE t = "^" -> {k} \cap {0}
       [] t = "$" -> {k} \cap {Len(url)}
       [] t \in Repeat -> {k}
       [] OTHER -> {l \in least .. most : l <= Len(url) /\ \A m \in k + 1 .. l : t \in {".", url[m]}}

(* test and MatchString: anywhere in the URL. *)
Matches(pattern, url) ==
  LET Advance(P, i) == UNION {EndsAt(pattern, url, i, k) : k \in P}
  IN /\ Compiles(pattern)
     /\ FoldLeft(Advance, 0 .. Len(url), [i \in 1 .. Len(pattern) |-> i]) # {}

AllowsMethod(methods, m) == methods = {} \/ methods \cap {m, "*"} # {}
Covers(r, q) == Matches(says[r].pattern, q.url) /\ AllowsMethod(says[r].methods, q.method)

(* GET /api/policies/match *)
MatchingPolicies(q) == {p \in policies : \E r \in RulesOf({p}) : Covers(r, q)}

-----------------------------------------------------------------------------
(* Proposals. *)

Schemes == {<<"http:", "/", "/">>, <<"https:", "/", "/">>}

(* slip: the scheme is not stripped *)
KeepScheme(url) == url
StripScheme(url) ==
  IF SubSeq(url, 1, 3) \in Schemes THEN SubSeq(url, 4, Len(url)) ELSE url

(* split('/').filter(Boolean) *)
Split(s) ==
  LET Put(ps, t) == IF t = "/" THEN Append(ps, << >>)
                    ELSE Append(Front(ps), Append(Last(ps), t))
  IN SelectSeq(FoldLeft(Put, << << >> >>, s), LAMBDA p : p # << >>)

(* generatePatterns: the URL itself, then each shorter path with a "/*". *)
Suggestions(url) ==
  LET clean == StripScheme(url)
      slash == SelectInSeq(clean, LAMBDA t : t = "/")
      domain == IF slash = 0 THEN clean ELSE SubSeq(clean, 1, slash - 1)
      parts == IF slash = 0 THEN << >> ELSE Split(SubSeq(clean, slash + 1, Len(clean)))
      Below(n) == FoldLeft(LAMBDA s, p : s \o <<"/">> \o p, domain, SubSeq(parts, 1, n)) \o <<"/", "*">>
      shorter == IF parts = << >> THEN <<Below(0)>> ELSE [k \in 1 .. Len(parts) |-> Below(Len(parts) - k)]
  IN <<clean>> \o shorter

(* The proxy's suggestPattern, which the approval carries. *)
SuggestPattern(url) == <<"^">> \o SubSeq(url, 1, 4) \o <<"/", ".", "*", "$">>

Closed == [page |-> "closed"]

(* What the builder is open for.  An approval is shown with its suggested  *)
(* pattern as its URL (approvalToEntry).                                   *)
EntryUrl(d) == IF d.page = "logs" THEN d.request.url ELSE SuggestPattern(d.request.url)
Proposals(d) == ToSet(Suggestions(EntryUrl(d)))

MatchingInit ==
  /\ Init
  /\ says \in [DOMAIN rules -> Typed]
  /\ desk = Closed

-----------------------------------------------------------------------------
(* SmartRuleBuilder. *)

OpenFromLog(q) ==
  /\ desk = Closed
  /\ desk' = [page |-> "logs", request |-> q]
  /\ UNCHANGED <<store, says>>

(* setRuleEntry comes after the answer to the approval, so it may replace  *)
(* the entry of another one.                                               *)
OpenFromApproval(q) ==
  /\ desk.page \in {"closed", "approvals"}
  /\ desk' = [page |-> "approvals", request |-> q]
  /\ UNCHANGED <<store, says>>

Cancel ==
  /\ desk # Closed
  /\ desk' = Closed
  /\ UNCHANGED <<store, says>>

Say(r, text) == says' = [s \in DOMAIN says \cup {r} |-> IF s = r THEN text ELSE says[s]]

(* The policies in the select; the Logs page has none. *)
Offers(d) == IF d.page = "logs" THEN {NoPolicy} ELSE Policy \cup {NoPolicy}

(* handleSubmit and createRule, with the pattern picked and the methods    *)
(* ticked last.  A policy that has been deleted meanwhile fails the call,  *)
(* which leaves the builder open.                                          *)
Submit(r, p, text) ==
  /\ desk # Closed
  /\ text.pattern \in Proposals(desk)
  /\ p \in Offers(desk)
  /\ CreateRule(r, [policy |-> p, enabled |-> TRUE])
  /\ Say(r, text)
  /\ desk' = Closed

-----------------------------------------------------------------------------
(* RuleForm, the Rules page, and the other writes of PolicyStore. *)

SaveNewRule(r, row, text) ==
  /\ CreateRule(r, row)
  /\ Say(r, text)
  /\ UNCHANGED desk

SaveRule(r, row, text) ==
  /\ UpdateRule(r, row)
  /\ Say(r, text)
  /\ UNCHANGED desk

RemoveRule(r) ==
  /\ DeleteRule(r)
  /\ says' = Restrict(says, DOMAIN says \ {r})
  /\ UNCHANGED desk

(* MoveRuleModal *)
MoveRule(r, p) == MoveToPolicy(r, p) /\ UNCHANGED <<says, desk>>

OtherWrite == (PolicyWrite \/ AgentWrite) /\ UNCHANGED <<says, desk>>

Ticked == SUBSET {q.method : q \in Request}
Drafts(d) == [pattern : Proposals(d), methods : Ticked]

Build ==
  \/ \E q \in Request : OpenFromLog(q) \/ OpenFromApproval(q)
  \/ Cancel
  \/ desk # Closed /\ \E r \in Rule, p \in Policy \cup {NoPolicy} : \E text \in Drafts(desk) : Submit(r, p, text)

Write ==
  \E r \in Rule :
    \/ \E row \in RuleRow, text \in Typed : SaveNewRule(r, row, text)
    \/ \E row \in RuleRow : \E text \in Typed \cup {says[s] : s \in DOMAIN says \cap {r}} : SaveRule(r, row, text)
    \/ RemoveRule(r)
    \/ \E p \in Policy \cup {NoPolicy} : MoveRule(r, p)

MatchingNext == Build \/ Write \/ OtherWrite

MatchingSpec == MatchingInit /\ [][MatchingNext]_matching
-----------------------------------------------------------------------------
(* The proposals that are for the request.  Of an entry of the log, those  *)
(* that end before a metacharacter of the URL, as "?" is: nothing escapes  *)
(* it, and what contains it misses the URL.  Of an approval whose URL has  *)
(* a path, the first (the others are cut from a pattern as if it were a    *)
(* URL).                                                                   *)
Offered(d) ==
  CASE d.page = "logs" -> {p \in Proposals(d) : "?" \notin ToSet(p)}
    [] d.page = "approvals" /\ Len(d.request.url) > 4 -> {SuggestPattern(d.request.url)}
    [] OTHER -> {}

Proposed(r, q) ==
  /\ desk # Closed /\ desk' = Closed /\ desk.request = q
  /\ r \in DOMAIN rules' \ DOMAIN rules
  /\ says'[r].pattern \in Offered(desk) /\ AllowsMethod(says'[r].methods, q.method)

(* A rule made from a request by one of these, with its method left in, is *)
(* about that request (SmartRuleBuilder.jsx generatePatterns and           *)
(* handleSubmit): the server finds it in the policy it was put in          *)
(* (api/policies.js /match), and every agent that the policy reaches gets  *)
(* it.                                                                     *)
RuleFitsRequest ==
  [][\A r \in Rule, q \in Request :
       Proposed(r, q) =>
         /\ Covers(r, q)'
         /\ rules'[r].policy # NoPolicy => rules'[r].policy \in MatchingPolicies(q)'
         /\ \A a \in DOMAIN agents : rules'[r].policy \in Reachable(a) => r \in Resolve(a)']_matching
=============================================================================
