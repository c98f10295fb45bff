----------------------------- MODULE KeyValues -----------------------------
(***************************************************************************)
(* parseKeyValues of setup-robot (cmd/setup-robot/main.go), which turns   *)
(* the --labels and --annotations flags into maps: "a=b,c=d" is split on  *)
(* ',' and each entry on its first '='; "\," is an escaped comma, kept in  *)
(* the value.  The code does it by rewriting: every "\," becomes the       *)
(* string commaSentinel, the result is split on ',', and in each entry the *)
(* sentinel is turned back into ','.  Strings are sequences of characters  *)
(* over a small alphabet; the sentinel, a 16-character string in the code, *)
(* is one token that no flag value contains (see the README).             *)
(* The check compares the parse of every flag value up to MaxFlagLen with *)
(* a reference read off the positions of the characters.                  *)
(***************************************************************************)
EXTENDS Naturals, Sequences

LOCAL INSTANCE SequencesExt

CommaSentinel == "_COMMA_SENTINEL_"
FlagChars == {"k", "v", "=", ",", "\\"}

\* strings.ReplaceAll(s, "\\,", commaSentinel): leftmost, non-overlapping
RECURSIVE EscapeCommas(_)
EscapeCommas(s) ==
    IF Len(s) < 2 THEN s
    ELSE IF s[1] = "\\" /\ s[2] = ","
         THEN <<CommaSentinel>> \o EscapeCommas(Tail(Tail(s)))
         ELSE <<Head(s)>> \o EscapeCommas(Tail(s))

\* strings.Split(s, sep): the fields between the separators, "" giving <<"">>
RECURSIVE SplitOn(_, _)
SplitOn(s, sep) ==
    LET j == SelectInSeq(s, LAMBDA c : c = sep) IN
    IF j = 0 THEN <<s>>
    ELSE <<SubSeq(s, 1, j - 1)>> \o SplitOn(SubSeq(s, j + 1, Len(s)), sep)

\* strings.SplitN(l, "=", 2), when l contains "=": key and value
HasPair(l) == SelectInSeq(l, LAMBDA c : c = "=") # 0
KeyOf(l) == SubSeq(l, 1, SelectInSeq(l, LAMBDA c : c = "=") - 1)
ValueOf(l) == SubSeq(l, SelectInSeq(l, LAMBDA c : c = "=") + 1, Len(l))

\* the loop over the entries: lset[parts[0]] = parts[1], a later key
\* winning; an entry without "=" is the error "not a key/value pair"
ParseEntries(entries) ==
    [ok |-> \A i \in DOMAIN entries : HasPair(entries[i]),
     kv |-> FoldLeft(LAMBDA m, l : (KeyOf(l) :> ValueOf(l)) @@ m, <<>>, entries)]

\* (mutant) split on ',' before the escaped commas are replaced
ParseKeyValuesSplitFirst(s) ==
    IF s = <<>> THEN [ok |-> TRUE, kv |-> <<>>]
    ELSE LET fields == SplitOn(s, ",") IN
         ParseEntries([i \in DOMAIN fields |->
                          ReplaceAll(EscapeCommas(fields[i]), CommaSentinel, ",")])

\* parseKeyValues: the empty string is the empty map; otherwise escape,
\* split, restore the commas in each entry and build the map
ParseKeyValues(s) ==
    IF s = <<>> THEN [ok |-> TRUE, kv |-> <<>>]
    ELSE LET fields == SplitOn(EscapeCommas(s), ",") IN
         ParseEntries([i \in DOMAIN fields |-> ReplaceAll(fields[i], CommaSentinel, ",")])

-----------------------------------------------------------------------------
(* The reference, read off character positions *)

\* a comma separates entries unless a backslash stands right before it
Separators(s) == {i \in DOMAIN s : s[i] = "," /\ (i = 1 \/ s[i - 1] # "\\")}

\* the entries between consecutive cuts, with the backslash of each "\,"
\* dropped
RefEntries(s) ==
    LET cuts == SetToSortSeq(Separators(s) \cup {0, Len(s) + 1}, LAMBDA a, b : a < b)
        Unescape(f) ==
            LET keep == SetToSortSeq({i \in DOMAIN f : ~(f[i] = "\\" /\ i < Len(f) /\ f[i + 1] = ",")},
                                     LAMBDA a, b : a < b)
            IN [j \in DOMAIN keep |-> f[keep[j]]]
    IN [n \in 1..(Len(cuts) - 1) |-> Unescape(SubSeq(s, cuts[n] + 1, cuts[n + 1] - 1))]

\* every entry must hold "="; each key maps to the value of its last entry
RefParse(s) ==
    LET es == RefEntries(s)
        keys == {KeyOf(es[n]) : n \in DOMAIN es}
        lastWith(k) == CHOOSE n \in DOMAIN es :
                          KeyOf(es[n]) = k /\ \A m \in DOMAIN es : KeyOf(es[m]) = k => m <= n
    IN IF s = <<>> THEN [ok |-> TRUE, kv |-> <<>>]
       ELSE [ok |-> \A n \in DOMAIN es : HasPair(es[n]),
             kv |-> [k \in keys |-> ValueOf(es[lastWith(k)])]]

MaxFlagLen == 5
FlagValues == BoundedSeq(FlagChars, MaxFlagLen)

\* every flag value parses as the reference says (stated as a property,
\* over the run's states, by the MC module that extends this one)
ParseMatchesReference ==
    \A s \in FlagValues :
        LET p == ParseKeyValues(s)  r == RefParse(s) IN
        p.ok = r.ok /\ (p.ok => p.kv = r.kv)

====
