------------------------------ MODULE GroupFilter ------------------------------
(***************************************************************************)
(* shallExecuteTestGroup (src/eUnit/eUnit/eUnit.c): does the target run a  *)
(* group of tests, given the filters the debugger has written to           *)
(* optInTestGroups and optOutTestGroups?  A filter is a list of wildcard   *)
(* patterns; strtok, strstr and strcmp are modelled on sequences.          *)
(***************************************************************************)
EXTENDS Integers, Sequences

CONSTANTS
  Groups,   \* names of groups
  Filters,  \* lists of patterns; the empty list is an unset filter
  Behind    \* what strtok may find behind the copy of a filter

(* A pattern, split at its wildcards: "*a*bc" has the tokens a and bc and  *)
(* an open front.  The code assumes that there is a token; strtok never    *)
(* gives an empty one.                                                     *)
Word == Seq(STRING)
Pattern ==
  [tokens: Seq(Word \ {<< >>}) \ {<< >>}, openFront: BOOLEAN, openBack: BOOLEAN]

ASSUME FilterAssumption ==
  /\ Groups \subseteq Word
  /\ Filters \subseteq Seq(Pattern) /\ Behind \subseteq Seq(Pattern)

VARIABLES
  group,    \* the name of a group
  optIn,    \* optInTestGroups
  optOut,   \* optOutTestGroups
  behind,   \* the bytes behind the copy of the filter, as patterns
  executed  \* is the group executed?

filterVars == <<group, optIn, optOut, behind, executed>>
-----------------------------------------------------------------------------
(* Does word occur in text at position i? *)
OccursAt(word, text, i) ==
  i + Len(word) - 1 <= Len(text) /\ SubSeq(text, i, i + Len(word) - 1) = word

(* strstr: the first occurrence at or behind i, or 0. *)
FirstFrom(word, text, i) ==
  LET found == {j \in i..Len(text) : OccursAt(word, text, j)}
  IN  IF found = {} THEN 0 ELSE CHOOSE j \in found : \A k \in found : j <= k

(* Mutant: a pattern without a wildcard in front matches anywhere. *)
AnywhereInName(name, pattern) ==
  \A k \in 1..Len(pattern.tokens) : FirstFrom(pattern.tokens[k], name, 1) # 0

(* Where the loop finds each token: it looks from where the one before was *)
(* found.                                                                  *)
FoundAt(name, tokens) ==
  LET Found[k \in 0..Len(tokens)] ==
        IF k = 0 THEN 1
        ELSE IF Found[k - 1] = 0 THEN 0
        ELSE FirstFrom(tokens[k], name, Found[k - 1])
  IN  Found

doesSingleFilterApplyToGroup(name, pattern) ==
  LET tokens == pattern.tokens
      last == tokens[Len(tokens)]
  IN  /\ ~pattern.openFront => FirstFrom(tokens[1], name, 1) = 1
      /\ FoundAt(name, tokens)[Len(tokens)] # 0
      /\ ~pattern.openBack => OccursAt(last, name, Len(name) - Len(last) + 1)

(* After the last pattern of the list strtok goes on behind the copy of    *)
(* the filter, where it finds nothing or some pattern.                     *)
doesFilterApplyToGroup(name, filter) ==
  \E k \in 1..Len(filter) + Len(behind) :
    doesSingleFilterApplyToGroup(name, (filter \o behind)[k])

(* Mutant: a group that is opted in runs, whatever is opted out. *)
InBeforeOut ==
  /\ executed = "undecided"
  /\ executed' = IF optIn # << >> /\ doesFilterApplyToGroup(group, optIn)
                 THEN "yes" ELSE "no"
  /\ UNCHANGED <<group, optIn, optOut, behind>>

(* Mutant: opting in counts only when an opt-out filter is set as well. *)
NeedsBothFilters ==
  /\ executed = "undecided"
  /\ executed' = IF optOut # << >> /\ ~doesFilterApplyToGroup(group, optOut)
                 THEN "yes" ELSE "no"
  /\ UNCHANGED <<group, optIn, optOut, behind>>

shallExecuteTestGroup ==
  /\ executed = "undecided"
  /\ LET optedOut == optOut # << >> /\ doesFilterApplyToGroup(group, optOut)
         optedIn == optIn = << >> \/ doesFilterApplyToGroup(group, optIn)
     IN  executed' = IF optedIn /\ ~optedOut THEN "yes" ELSE "no"
  /\ UNCHANGED <<group, optIn, optOut, behind>>

FilterInit ==
  /\ group \in Groups /\ optIn \in Filters /\ optOut \in Filters /\ behind \in Behind
  /\ executed = "undecided"

FilterNext == shallExecuteTestGroup

FilterSpec == FilterInit /\ [][FilterNext]_filterVars
-----------------------------------------------------------------------------
(* Properties *)

(* What a pattern means: its tokens occur one behind the other, at the     *)
(* front or the back of the name where the pattern has no wildcard.        *)
Matches(name, pattern) ==
  LET tokens == pattern.tokens
      n == Len(tokens)
  IN  \E at \in [1..n -> 1..(Len(name) + 1)] :
        /\ \A k \in 1..n : OccursAt(tokens[k], name, at[k])
        /\ \A k \in 1..(n - 1) : at[k] + Len(tokens[k]) <= at[k + 1]
        /\ ~pattern.openFront => at[1] = 1
        /\ ~pattern.openBack => at[n] + Len(tokens[n]) - 1 = Len(name)

Selected(filter) == \E k \in 1..Len(filter) : Matches(group, filter[k])

(* Filters never miss, whatever lies behind them: a group that is opted out *)
(* never runs, though it may be opted in as well.                           *)
OptedOutNeverRuns == executed = "yes" => ~Selected(optOut)

(* A group that is opted in runs when nothing is opted out.                 *)
OptedInRuns == executed = "no" /\ optOut = << >> => ~Selected(optIn)

(* Filters select nothing else where the code compares what it should: no  *)
(* two tokens in a row share a character, since each is looked for from the *)
(* start of the one before; a single token has a wildcard on one side,      *)
(* since its two ends are compared apart; and nothing lies behind.          *)
Distinct(u, v) == \A i \in 1..Len(u), j \in 1..Len(v) : u[i] # v[j]
Simple(filter) ==
  \A k \in 1..Len(filter) :
    LET tokens == filter[k].tokens
    IN  /\ \A n \in 1..(Len(tokens) - 1) : Distinct(tokens[n], tokens[n + 1])
        /\ Len(tokens) = 1 => filter[k].openFront \/ filter[k].openBack
NothingElseSelected ==
  behind = << >> =>
    /\ executed = "yes" /\ optIn # << >> /\ Simple(optIn) => Selected(optIn)
    /\ executed = "no" /\ optIn = << >> /\ Simple(optOut) => Selected(optOut)
================================================================================
