---------------------------- MODULE TextReaders ----------------------------
(***************************************************************************)
(* The readers of the configuration and of the game's texts (util/Json,    *)
(* util/KeyValues), over tokens: strings, numbers and comments are what    *)
(* the lexers make of characters, and what no lexer accepts is "?".  Each  *)
(* parser is a step per token; its descent is a stack or a depth.          *)
(***************************************************************************)
EXTENDS Integers, FiniteSets, SequencesExt

CONSTANTS
  MaxJsonDepth,          \* 64
  MaxKvDepth, MaxKvNodes,   \* KvLimits
  MaxJsonText, MaxKvText \* bounds on the tokens of a text

ASSUME ReadersAssumption == {MaxJsonDepth, MaxKvDepth, MaxKvNodes, MaxJsonText, MaxKvText} \subseteq Nat

VARIABLES reading,       \* which parser reads
          tokens, said   \* the text; what the parser has made of it

readerVars == <<reading, tokens, said>>

JsonTokens == {"{", "}", "[", "]", ":", ",", "string", "scalar", "?"}
KvTokens == {"{", "}", "key", "cond", "#include"}

-----------------------------------------------------------------------------
(* Json *)

JsonStart == [stack |-> <<>>, want |-> "value"]
Inside(s) == IF s.stack = <<>> THEN "text" ELSE Last(s.stack)

\* ParseValue refuses what lies too deep before it looks at it.
\* Mutant: the guard counts one level late.
ValueAllowedLate(s) == s.want \in {"value", "item"} /\ Len(s.stack) <= MaxJsonDepth
ValueAllowed(s) == s.want \in {"value", "item"} /\ Len(s.stack) < MaxJsonDepth

\* ParseArray and ParseObject want an item or a member, or the end also behind a comma.
JsonStep(s, t) ==
  CASE ValueAllowed(s) /\ t \in {"string", "scalar"} -> [s EXCEPT !.want = "next"]
    [] ValueAllowed(s) /\ t = "[" -> [stack |-> Append(s.stack, t), want |-> "item"]
    [] ValueAllowed(s) /\ t = "{" -> [stack |-> Append(s.stack, t), want |-> "member"]
    [] \/ t = "]" /\ Inside(s) = "[" /\ s.want \in {"item", "next"}
       \/ t = "}" /\ Inside(s) = "{" /\ s.want \in {"member", "next"} -> [stack |-> Front(s.stack), want |-> "next"]
    [] t = "," /\ s.want = "next" /\ s.stack # <<>> -> [s EXCEPT !.want = IF Inside(s) = "[" THEN "item" ELSE "member"]
    [] t = "string" /\ s.want = "member" -> [s EXCEPT !.want = "colon"]
    [] t = ":" /\ s.want = "colon" -> [s EXCEPT !.want = "value"]
    [] OTHER -> [s EXCEPT !.want = "fails"]

\* Run: one value and nothing behind it.
ParseJson(text) ==
  LET after == FoldLeft(JsonStep, JsonStart, text) IN after.want = "next" /\ after.stack = <<>>

-----------------------------------------------------------------------------
(* KeyValues *)

KvStart == [want |-> "key", depth |-> 0, skip |-> 0, discard |-> 0, nodes |-> 0, entries |-> <<>>,
            cond |-> FALSE, includes |-> 0, truncated |-> FALSE]
KvEntry(s, block) == [block |-> block, depth |-> s.depth, cond |-> s.cond]

\* A node of the tree, unless there are too many or the block it is in has no key.
\* Mutant: a full document takes one node more.
AddNodeLate(s, block) ==
  IF s.nodes > MaxKvNodes THEN [s EXCEPT !.truncated = TRUE]
  ELSE [s EXCEPT !.nodes = @ + 1, !.entries = IF s.discard > 0 THEN @ ELSE Append(@, KvEntry(s, block))]
AddNode(s, block) ==
  IF s.nodes >= MaxKvNodes THEN [s EXCEPT !.truncated = TRUE]
  ELSE [s EXCEPT !.nodes = @ + 1, !.entries = IF s.discard > 0 THEN @ ELSE Append(@, KvEntry(s, block))]

CloseBlock(s) ==
  IF s.depth = 0 THEN [s EXCEPT !.truncated = TRUE]
  ELSE [s EXCEPT !.depth = @ - 1, !.discard = IF @ = s.depth THEN 0 ELSE @]
\* ParseBlock one deeper, or SkipBlock.
OpenBlock(s) ==
  IF s.depth + 1 > MaxKvDepth THEN [s EXCEPT !.truncated = TRUE, !.skip = 1] ELSE [s EXCEPT !.depth = @ + 1]

KvSkip(s, t) == [s EXCEPT !.skip = @ + (CASE t = "{" -> 1 [] t = "}" -> -1 [] OTHER -> 0)]
KvKey(s, t) ==
  CASE t = "}" -> CloseBlock(s)
    [] t = "{" -> LET inner == OpenBlock([s EXCEPT !.truncated = TRUE])
                  IN [inner EXCEPT !.discard = IF @ = 0 /\ inner.skip = 0 THEN inner.depth ELSE @]
    [] t = "cond" -> s
    [] t = "#include" -> [s EXCEPT !.want = "target"]
    [] OTHER -> [s EXCEPT !.want = "value", !.cond = FALSE]
\* The next token is the target, whatever it is, and is no directive if it is no string.
KvTarget(s, t) ==
  [s EXCEPT !.want = "key", !.includes = IF t \in {"key", "#include"} THEN @ + 1 ELSE @]
KvValue(s, t) ==
  LET done == [s EXCEPT !.want = "key"]
  IN CASE t = "cond" /\ ~s.cond -> [s EXCEPT !.cond = TRUE]
       [] t = "}" -> LET leaf == AddNode(done, FALSE) IN IF s.depth = 0 THEN leaf ELSE CloseBlock(leaf)
       [] t = "{" -> IF s.nodes >= MaxKvNodes THEN [done EXCEPT !.truncated = TRUE, !.skip = 1]
                     ELSE OpenBlock(AddNode(done, TRUE))
       [] OTHER -> [AddNode(s, FALSE) EXCEPT !.want = IF s.nodes < MaxKvNodes /\ s.discard = 0 THEN "trailing" ELSE "lost"]
\* PeekCondition: a condition behind the value is the leaf's; anything else is read again.
KvTrailing(s, t) ==
  LET done == [s EXCEPT !.want = "key"]
  IN IF t # "cond" THEN KvKey(done, t)
     ELSE IF s.want = "lost" THEN done
     ELSE [done EXCEPT !.entries[Len(s.entries)].cond = TRUE]

KvStep(s, t) ==
  CASE s.skip > 0 -> KvSkip(s, t)
    [] s.want = "key" /\ s.skip = 0 -> KvKey(s, t)
    [] s.want = "target" /\ s.skip = 0 -> KvTarget(s, t)
    [] s.want = "value" /\ s.skip = 0 -> KvValue(s, t)
    [] OTHER -> KvTrailing(s, t)

\* The end of the text inside a block, or where a value is missing.
ParseKeyValues(text) ==
  LET after == FoldLeft(KvStep, KvStart, text)
  IN [after EXCEPT !.truncated = @ \/ after.depth > 0 \/ after.want = "value"]

-----------------------------------------------------------------------------

ReadersInit ==
  /\ said = <<>>
  /\ \/ reading = "json" /\ tokens \in SeqOf(JsonTokens, MaxJsonText)
     \/ reading = "keyvalues" /\ tokens \in SeqOf(KvTokens, MaxKvText)
Read ==
  /\ said = <<>>
  /\ said' = <<IF reading = "json" THEN ParseJson(tokens) ELSE ParseKeyValues(tokens)>>
  /\ UNCHANGED <<reading, tokens>>
ReadersNext == Read

-----------------------------------------------------------------------------
(* What the grammars say, by generating their texts. *)

Short(texts, n) == {x \in texts : Len(x) <= n}
Lists(items, n) ==
  LET more[k \in 1..n] ==
        IF k = 1 THEN items
        ELSE more[k - 1] \cup Short({a \o <<",">> \o b : a \in items, b \in more[k - 1]}, n)
  IN Short(more[n] \cup {a \o <<",">> : a \in more[n]}, n)
JsonTexts ==
  LET values[d \in 0..MaxJsonDepth] ==
        IF d = 0 THEN {}
        ELSE LET inner == values[d - 1]
                 members == {<<"string", ":">> \o v : v \in Short(inner, MaxJsonText - 4)}
             IN {<<"string">>, <<"scalar">>, <<"[", "]">>, <<"{", "}">>}
                  \cup {<<"[">> \o x \o <<"]">> : x \in Lists(Short(inner, MaxJsonText - 2), MaxJsonText - 2)}
                  \cup {<<"{">> \o x \o <<"}">> : x \in Lists(members, MaxJsonText - 2)}
  IN values[MaxJsonDepth]

Balance(text) ==
  FoldLeft(LAMBDA n, t : CASE n < 0 -> n [] n >= 0 /\ t = "{" -> n + 1 [] n >= 0 /\ t = "}" -> n - 1 [] OTHER -> n, 0, text)
\* Documents whose pairs are "key value" and "key { ... }", and the tree each has.
Pairs(inner, depth) ==
  {[text |-> <<"key", "key">>, tree |-> <<[block |-> FALSE, depth |-> depth, cond |-> FALSE]>>],
   [text |-> <<"key", "key", "cond">>, tree |-> <<[block |-> FALSE, depth |-> depth, cond |-> TRUE]>>]}
  \cup {[text |-> <<"key", "{">> \o x.text \o <<"}">>,
         tree |-> <<[block |-> TRUE, depth |-> depth, cond |-> FALSE]>> \o x.tree] : x \in inner}
KvTexts ==
  LET blocks[h \in 0..MaxKvDepth] ==       \* what a block at depth MaxKvDepth - h can hold
        LET pairs == Pairs(IF h = 0 THEN {} ELSE blocks[h - 1], MaxKvDepth - h)
            none == {[text |-> <<>>, tree |-> <<>>]}
            two == {[text |-> a.text \o b.text, tree |-> a.tree \o b.tree] : a \in pairs \cup none, b \in pairs \cup none}
        IN {x \in two : Len(x.text) <= MaxKvText /\ Len(x.tree) <= MaxKvNodes}
  IN blocks[MaxKvDepth]

\* The configuration is read exactly when it is a text of the grammar, with a
\* comma allowed before a closing bracket, and no deeper than the limit.
JsonIsRead == reading = "json" /\ said # <<>> => (said[1] <=> tokens \in JsonTexts)

\* A well-formed text of the game gives its tree and nothing is said to be cut off.
TreeIsRead ==
  reading = "keyvalues" /\ said # <<>> =>
    \A x \in KvTexts : x.text = tokens => said[1].entries = x.tree /\ ~said[1].truncated

\* What was cut off or does not balance is said to be, unless a brace stands where a value should.
TruncationIsSaid ==
  reading = "keyvalues" /\ said # <<>> =>
    /\ said[1].nodes <= MaxKvNodes /\ Len(said[1].entries) <= said[1].nodes
    /\ \A i \in DOMAIN said[1].entries : said[1].entries[i].depth <= MaxKvDepth
    /\ ~said[1].truncated => \/ Balance(tokens) = 0
                          \/ \E i \in 1..(Len(tokens) - 1) :
                               tokens[i] \in {"key", "cond", "#include"} /\ tokens[i + 1] \in {"{", "}"}
                                 /\ (tokens[i] # "key" \/ tokens[i + 1] = "}")

ReadersInv == JsonIsRead /\ TreeIsRead /\ TruncationIsSaid
=============================================================================
