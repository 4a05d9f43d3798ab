------------------------------- MODULE FlowAho --------------------------------
(***************************************************************************)
(* The multi-pattern matcher of flow_core_ahocorasick.c and                *)
(* flow_core_node.c, as flow_config_parser.c uses it: patterns are added,  *)
(* the trie is finalized, then text after text is set and searched.        *)
(*                                                                         *)
(* A node is known by the word that leads to it from the root, so the      *)
(* edges of node n go to the nodes n \o <<c>>.  A pattern is known by its  *)
(* text.                                                                   *)
(***************************************************************************)
EXTENDS Integers, Sequences, FiniteSets, SequencesExt

CONSTANTS
  Letter,       \* AC_ALPHABET_t
  Words,        \* the patterns that may be added
  MaxPattern,   \* AC_PATTRN_MAX_LENGTH
  MaxPatterns,  \* bound on the number of patterns
  Texts         \* the texts to be searched

Root == << >>

ASSUME AhoAssumption ==
  /\ Words \subseteq Seq(Letter) /\ Texts \subseteq Seq(Letter)
  /\ MaxPattern \in Nat \ {0} /\ MaxPatterns \in Nat

VARIABLES
  nodes,      \* the nodes of the trie
  final,      \* the nodes that have matches
  matched,    \* matched[n]: the patterns that end where n does
  failure,    \* failure[n]: n's failure node; << >> before ac_trie_finalize
  pc,         \* "add", "collect", "accept", "idle", "search"
  collected,  \* the nodes node_collect_matches is through with
  nod, suffix, at,      \* node_collect_matches' nod, n and i
  text, position, last_node, base_position,   \* the trie's search state
  current, pos,          \* ac_trie_search's variables
  match,      \* what the last ac_trie_findnext returned
  from        \* history: where that search began

loop   == <<nod, suffix, at>>
trie   == <<nodes, final, matched, failure, collected, loop>>
search == <<text, position, last_node, base_position, current, pos, match, from>>
vars   == <<trie, pc, search>>

NoMatch == [size |-> 0, position |-> 0, patterns |-> << >>]

Init ==
  /\ nodes = {Root} /\ final = {}
  /\ matched = [n \in nodes |-> << >>]
  /\ failure = << >>
  /\ pc = "add" /\ collected = {}
  /\ nod = Root /\ suffix = Root /\ at = 1
  /\ text = << >> /\ position = 0
  /\ last_node = Root /\ base_position = 0
  /\ current = Root /\ pos = 0
  /\ match = NoMatch /\ from = 0

IsSuffixOf(s, w) == Len(s) <= Len(w) /\ SubSeq(w, Len(w) - Len(s) + 1, Len(w)) = s

(* The proper suffixes of w but the empty one, longest first: from i = 1.  *)
ProperSuffixes(w) == {SubSeq(w, i + 1, Len(w)) : i \in 1..(Len(w) - 1)}

-------------------------------------------------------------------------------
(* Building                                                                *)

(* No text, a text that is too long: refused.  The path is created even    *)
(* for a text that the trie has; then it is refused.                       *)
Add(w) ==
  /\ pc = "add"
  /\ Cardinality(final) < MaxPatterns
  /\ Len(w) \in 1..MaxPattern
  /\ nodes' = nodes \cup Prefixes(w)
  /\ final' = final \cup {w}
  /\ matched' = [n \in nodes' |-> IF n = w THEN <<w>>
                                  ELSE IF n \in nodes THEN matched[n] ELSE << >>]
  /\ UNCHANGED <<failure, collected, loop, pc, search>>

(* set_failure: the first of the proper suffixes, longest first, that      *)
(* leads from the root to a node; the root if none does.                   *)
FailureNode(n) ==
  LET found == ProperSuffixes(n) \cap nodes
  IN IF found = {} THEN Root
     ELSE CHOOSE s \in found : \A r \in found : Len(r) <= Len(s)

(* ac_trie_finalize, the first traversal.                                  *)
SetFailures ==
  /\ pc = "add"
  /\ failure' = [n \in nodes |-> FailureNode(n)]
  /\ pc' = "collect"
  /\ UNCHANGED <<nodes, final, matched, collected, loop, search>>

(* node_collect_matches on n, after the node above it; its brothers come   *)
(* in the order of their edges, which is left open.  The root has no       *)
(* failure node.                                                           *)
Collect(n) ==
  /\ pc = "collect"
  /\ n \notin collected /\ (n = Root \/ Front(n) \in collected)
  /\ IF n = Root THEN collected' = {Root} /\ UNCHANGED <<pc, loop>>
     ELSE /\ pc' = "accept"
          /\ nod' = n /\ suffix' = failure[n] /\ at' = 1
          /\ UNCHANGED collected
  /\ UNCHANGED <<nodes, final, matched, failure, search>>

(* node_accept_pattern: one that nod has is left out.                      *)
AcceptPattern ==
  LET p == matched[suffix][at] IN
  /\ pc = "accept" /\ at <= Len(matched[suffix])
  /\ matched' = [matched EXCEPT ![nod] = IF p \in Range(@) THEN @ ELSE Append(@, p)]
  /\ at' = at + 1
  /\ UNCHANGED <<nodes, final, failure, collected, nod, suffix, pc, search>>

(* Mutant of NextSuffix: only the first failure node is asked.             *)
NextSuffixOne ==
  /\ pc = "accept" /\ at > Len(matched[suffix])
  /\ final' = IF suffix \in final THEN final \cup {nod} ELSE final
  /\ collected' = collected \cup {nod} /\ pc' = "collect"
  /\ nod' = Root /\ suffix' = Root /\ at' = 1
  /\ UNCHANGED <<nodes, matched, failure, search>>

(* The failure node's own failure node comes next, up to the root.         *)
NextSuffix ==
  /\ pc = "accept" /\ at > Len(matched[suffix])
  /\ final' = IF suffix \in final THEN final \cup {nod} ELSE final
  /\ IF suffix = Root
     THEN /\ collected' = collected \cup {nod} /\ pc' = "collect"
          /\ nod' = Root /\ UNCHANGED <<suffix, at>>
     ELSE /\ suffix' = failure[suffix] /\ at' = 1
          /\ UNCHANGED <<collected, nod, pc>>
  /\ UNCHANGED <<nodes, matched, failure, search>>

CloseTrie ==
  /\ pc = "collect" /\ collected = nodes
  /\ pc' = "idle"
  /\ UNCHANGED <<trie, search>>

-------------------------------------------------------------------------------
(* Searching                                                               *)

(* ac_trie_search goes on from where the trie's search state says.         *)
StartSearch(p, n) ==
  /\ pc' = "search"
  /\ pos' = p /\ current' = n
  /\ from' = p

(* Mutant of SetText: the text is searched from where the last one was     *)
(* left.                                                                   *)
SetTextStale(t) ==
  /\ pc = "idle"
  /\ text' = t /\ position' = 0
  /\ UNCHANGED <<last_node, base_position>>
  /\ match' = NoMatch
  /\ StartSearch(0, last_node)
  /\ UNCHANGED trie

(* settext, which resets the trie, and the first findnext.                 *)
SetText(t) ==
  /\ pc = "idle"
  /\ text' = t /\ position' = 0
  /\ last_node' = Root /\ base_position' = 0
  /\ match' = NoMatch
  /\ StartSearch(0, Root)
  /\ UNCHANGED trie

(* A loop over findnext goes on while there are matches.                   *)
FindNext ==
  /\ pc = "idle" /\ match.size > 0
  /\ match' = NoMatch
  /\ StartSearch(position, last_node)
  /\ UNCHANGED <<trie, text, position, last_node, base_position>>

(* The match handler stops the search; the search state is kept.           *)
Found(n, p) ==
  /\ match' = [size |-> Len(matched[n]), position |-> p + base_position,
               patterns |-> matched[n]]
  /\ position' = p /\ last_node' = n
  /\ pc' = "idle"
  /\ UNCHANGED <<text, base_position>>

(* Mutant of SearchStep: back to the root instead of the failure node.     *)
SearchStepRoot ==
  LET along == Append(current, text[pos + 1]) IN
  /\ pc = "search" /\ pos < Len(text)
  /\ IF along \in nodes
     THEN /\ current' = along /\ pos' = pos + 1
          /\ IF along \in final THEN Found(along, pos + 1)
             ELSE UNCHANGED <<pc, match, text, position, last_node, base_position>>
     ELSE /\ current' = Root
          /\ pos' = IF current = Root THEN pos + 1 ELSE pos
          /\ UNCHANGED <<pc, match, text, position, last_node, base_position>>
  /\ UNCHANGED <<trie, from>>

(* Mutant of SearchStep: the root does not skip the character.             *)
SearchStepStuck ==
  LET along == Append(current, text[pos + 1]) IN
  /\ pc = "search" /\ pos < Len(text)
  /\ IF along \in nodes
     THEN /\ current' = along /\ pos' = pos + 1
          /\ IF along \in final THEN Found(along, pos + 1)
             ELSE UNCHANGED <<pc, match, text, position, last_node, base_position>>
     ELSE /\ current' = IF current = Root THEN Root ELSE failure[current]
          /\ UNCHANGED <<pos, pc, match, text, position, last_node, base_position>>
  /\ UNCHANGED <<trie, from>>

(* One turn of the search loop: along an edge, to the failure node, or, in *)
(* the root, past the character.  Only an edge can lead to a match.        *)
SearchStep ==
  LET along == Append(current, text[pos + 1]) IN
  /\ pc = "search" /\ pos < Len(text)
  /\ IF along \in nodes
     THEN /\ current' = along /\ pos' = pos + 1
          /\ IF along \in final THEN Found(along, pos + 1)
             ELSE UNCHANGED <<pc, match, text, position, last_node, base_position>>
     ELSE /\ current' = IF current = Root THEN Root ELSE failure[current]
          /\ pos' = IF current = Root THEN pos + 1 ELSE pos
          /\ UNCHANGED <<pc, match, text, position, last_node, base_position>>
  /\ UNCHANGED <<trie, from>>

SearchEnd ==
  /\ pc = "search" /\ pos >= Len(text)
  /\ last_node' = current
  /\ base_position' = base_position + pos
  /\ pc' = "idle"
  /\ UNCHANGED <<trie, text, position, current, pos, match, from>>

Next ==
  \/ \E w \in Words : Add(w)
  \/ SetFailures
  \/ \E n \in nodes : Collect(n)
  \/ AcceptPattern \/ NextSuffix \/ CloseTrie
  \/ \E t \in Texts : SetText(t)
  \/ FindNext \/ SearchStep \/ SearchEnd

Spec == Init /\ [][Next]_vars

FairSpec == Spec /\ WF_vars(SearchStep \/ SearchEnd)

-------------------------------------------------------------------------------
(* Properties.                                                             *)

Patterns == {n \in nodes : matched[n] # << >> /\ matched[n][1] = n}

(* The search never loses a match: its node is a suffix of what it has     *)
(* read, and every longer suffix of it in the trie is out of the question, *)
(* as no node continues it with the character being read.                  *)
CurrentLongest ==
  pc = "search" =>
    LET read == SubSeq(text, 1, pos) IN
    /\ IsSuffixOf(current, read)
    /\ \A n \in nodes :
         IsSuffixOf(n, read) /\ Len(n) > Len(current)
           => pos < Len(text) /\ Append(n, text[pos + 1]) \notin nodes

(* The ends of the patterns' occurrences in t after the first k characters. *)
EndsAfter(t, k) ==
  {e \in (k + 1)..Len(t) : \E p \in Patterns : IsSuffixOf(p, SubSeq(t, 1, e))}

(* findnext returns the first place where a pattern ends, with all the     *)
(* patterns that end there, the longest first; nothing if there is none.   *)
(* This holds text after text, whatever the search before left behind.     *)
FindRight ==
  pc = "idle" /\ failure # << >> =>
    IF match.size > 0
    THEN /\ match.position \in EndsAfter(text, from)
         /\ \A e \in EndsAfter(text, from) : match.position <= e
         /\ LET ends == {p \in Patterns : IsSuffixOf(p, SubSeq(text, 1, match.position))}
            IN /\ Range(match.patterns) = ends /\ match.size = Cardinality(ends)
               /\ \A p \in ends : Len(p) <= Len(match.patterns[1])
    ELSE EndsAfter(text, from) = {}

(* A search ends, though failure transitions consume nothing.              *)
SearchEnds == pc = "search" ~> pc = "idle"
===============================================================================
