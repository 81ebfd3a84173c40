------------------------------ MODULE Template ------------------------------
(***************************************************************************)
(* Macros of the printer's own G-code (elysian-config placeholder.rs:      *)
(* expand_placeholders, take_if): {if}, {elsif}, {else} and {endif}, one   *)
(* within the other, and what stands in brackets.  The branch taken is     *)
(* collected as it stands and then expanded by itself.                     *)
(*                                                                         *)
(* A template is a sequence of tokens: the braces, with the value of their *)
(* condition, and the rest, numbered.  A [name] or {expression} with a     *)
(* value is a token of its own, and text when it has none; every other     *)
(* bracket is a token.  A brace is ASCII, and has both or neither of two   *)
(* brackets that belong together.                                          *)
(***************************************************************************)
EXTENDS Integers, Sequences, SequencesExt

CONSTANTS Templates,  \* sequences of tokens
          Meaning,    \* of texts in which every {if} has its {endif}
          Other,      \* of the branches from one's first brace on
          After       \* the text after their {endif}

VARIABLES template,
          frames,   \* what is expanded: tokens left, the innermost last
          within,   \* is an {if} being read?
          chosen,   \* its branch taken, in a sequence, once there is one
          take,     \* is the branch read now to be taken?
          collecting, depth,  \* that branch so far, and {if}s open in it
          expanded  \* the output

expanding == <<template, frames, within, chosen, take, collecting, depth, expanded>>

-----------------------------------------------------------------------------
(* What a template means, token by token                                    *)

Ascii == ({"text", "value", "open", "close"} \X Nat)
         \cup ({"if", "elsif", "else", "endif"} \X BOOLEAN)

\* Of other text the number says how often its bytes were taken for characters.
Tokens == Ascii \cup ({"utf8"} \X Nat)

\* `bytes[i] as char`
Recoded(token) == IF token[1] = "utf8" THEN <<"utf8", token[2] + 1>> ELSE token

\* A value takes the place of its name.
Shown(token) == IF token[1] = "value" THEN <<"text", token[2]>> ELSE token

\* find_closing: the bracket that w begins with is closed at n.
Balanced(w, n) ==
    Cardinality({m \in 1 .. n : w[m][1] = "open"}) = Cardinality({m \in 1 .. n : w[m][1] = "close"})
Closing(w, n) ==
    w[1][1] = "open" /\ w[n][1] = "close" /\ Balanced(w, n) /\ \A m \in 2 .. (n - 1) : ~Balanced(w, m)
Bracketed(w) == \E n \in 2 .. Len(w) : Closing(w, n)

\* After its first brace, w goes on with a branch, and with others from n on.
Branch(w, n) == SubSeq(w, 2, n - 1)
Others(w, n) == SubSeq(w, n, Len(w))
Branched(w, n) == Branch(w, n) \in DOMAIN Meaning /\ Others(w, n) \in DOMAIN After

\* Of an {if} the branch counts if its condition holds, or else the others.
\* What stands in brackets counts as it stands, the braces in it too.
Says(w) ==
    \/ w = <<>> /\ Meaning[w] = <<>>
    \/ /\ w # <<>> /\ w[1][1] \in {"text", "value", "open", "close"} /\ ~Bracketed(w)
       /\ Tail(w) \in DOMAIN Meaning /\ Meaning[w] = <<Shown(w[1])>> \o Meaning[Tail(w)]
    \/ /\ w # <<>> /\ w[1][1] = "open"
       /\ \E n \in 2 .. Len(w) :
             /\ Closing(w, n) /\ Branch(w, n) \in DOMAIN Meaning
             /\ Others(w, n + 1) \in DOMAIN Meaning
             /\ Meaning[w] = SubSeq(w, 1, n) \o Meaning[Others(w, n + 1)]
    \/ /\ w # <<>> /\ w[1][1] = "if"
       /\ \E n \in 2 .. Len(w) :
             /\ Branched(w, n)
             /\ Meaning[w] = (IF w[1][2] THEN Meaning[Branch(w, n)] ELSE Other[Others(w, n)])
                             \o Meaning[After[Others(w, n)]]

\* Likewise of an {elsif}; an {else} counts, and after the {endif} no branch is left.
SaysElse(t) ==
    \/ t # <<>> /\ t[1][1] = "endif" /\ After[t] = Tail(t) /\ Other[t] = <<>>
    \/ /\ t # <<>> /\ t[1][1] \in {"elsif", "else"}
       /\ \E n \in 2 .. Len(t) :
             /\ Branched(t, n)
             /\ After[t] = After[Others(t, n)]
             /\ Other[t] = IF t[1][1] = "else" \/ t[1][2] THEN Meaning[Branch(t, n)]
                           ELSE Other[Others(t, n)]

ASSUME MeaningAssumption ==
    /\ DOMAIN Meaning \subseteq Seq(Ascii) /\ DOMAIN After \subseteq Seq(Ascii)
    /\ DOMAIN Other = DOMAIN After
    /\ \A w \in DOMAIN Meaning : Meaning[w] \in Seq(Ascii) /\ Says(w)
    /\ \A t \in DOMAIN After : /\ Other[t] \in Seq(Ascii) /\ After[t] \in DOMAIN Meaning
                              /\ SaysElse(t)

-----------------------------------------------------------------------------
TemplateInit ==
    /\ template \in Templates
    /\ frames = <<template>>
    /\ within = FALSE /\ chosen = <<>> /\ take = FALSE
    /\ collecting = <<>> /\ depth = 0
    /\ expanded = <<>>

Rest == Last(frames)
Token == Head(Rest)
Consumed == [frames EXCEPT ![Len(frames)] = Tail(Rest)]
Expanding == frames # <<>> /\ Rest # <<>> /\ ~within
Reading == frames # <<>> /\ Rest # <<>> /\ within

\* expand_range: text, values, a bracket never closed, braces without an {if}.
Copy ==
    /\ Expanding /\ Token[1] # "if" /\ ~Bracketed(Rest)
    /\ expanded' = Append(expanded, Shown(Recoded(Token)))
    /\ frames' = Consumed
    /\ UNCHANGED <<template, within, chosen, take, collecting, depth>>

\* From a bracket to the one that closes it, all is copied and nothing expanded.
CopyBracket ==
    /\ Expanding
    /\ \E n \in 2 .. Len(Rest) :
          /\ Closing(Rest, n)
          /\ expanded' = expanded \o SubSeq(Rest, 1, n)
          /\ frames' = [frames EXCEPT ![Len(frames)] = Others(Rest, n + 1)]
    /\ UNCHANGED <<template, within, chosen, take, collecting, depth>>

EnterIf ==
    /\ Expanding /\ Token[1] = "if"
    /\ within' = TRUE /\ chosen' = <<>> /\ take' = Token[2]
    /\ collecting' = <<>> /\ depth' = 0
    /\ frames' = Consumed
    /\ UNCHANGED <<template, expanded>>

\* commit_branch
Committed == IF take /\ chosen = <<>> THEN <<collecting>> ELSE chosen

\* {elsif} and {else}: the next branch is taken if none was before.
NextBranch ==
    /\ Reading /\ depth = 0 /\ Token[1] \in {"elsif", "else"}
    /\ chosen' = Committed
    /\ take' = (chosen' = <<>> /\ (Token[1] = "else" \/ Token[2]))
    /\ collecting' = <<>>
    /\ frames' = Consumed
    /\ UNCHANGED <<template, within, depth, expanded>>

\* Faulty variant, for the mutation checks.
CollectFlat ==
    /\ Reading /\ (Token[1] \notin {"elsif", "else", "endif"} \/ depth > 0)
    /\ collecting' = Append(collecting, Recoded(Token))
    /\ depth' = CASE Token[1] = "if" -> 1
                  [] Token[1] = "endif" -> depth - 1
                  [] OTHER -> depth
    /\ frames' = Consumed
    /\ UNCHANGED <<template, within, chosen, take, expanded>>

\* The branch goes on, whatever is nested in it; brackets are not looked at.
Collect ==
    /\ Reading /\ (Token[1] \notin {"elsif", "else", "endif"} \/ depth > 0)
    /\ collecting' = Append(collecting, Recoded(Token))
    /\ depth' = CASE Token[1] = "if" -> depth + 1
                  [] Token[1] = "endif" -> depth - 1
                  [] OTHER -> depth
    /\ frames' = Consumed
    /\ UNCHANGED <<template, within, chosen, take, expanded>>

\* The {endif}, or the end of what is expanded: the branch chosen is expanded.
LeaveIf ==
    /\ within /\ frames # <<>>
    /\ \/ Rest # <<>> /\ depth = 0 /\ Token[1] = "endif"
       \/ Rest = <<>>
    /\ frames' = (IF Rest = <<>> THEN frames ELSE Consumed) \o Committed
    /\ within' = FALSE /\ chosen' = <<>> /\ take' = FALSE
    /\ collecting' = <<>> /\ depth' = 0
    /\ UNCHANGED <<template, expanded>>

\* expand_range has come to the end and returns to the text around it.
Return ==
    /\ frames # <<>> /\ Rest = <<>> /\ ~within
    /\ frames' = Front(frames)
    /\ UNCHANGED <<template, within, chosen, take, collecting, depth, expanded>>

Expand == Copy \/ CopyBracket \/ EnterIf \/ NextBranch \/ Collect \/ LeaveIf \/ Return

TemplateSpec == TemplateInit /\ [][Expand]_expanding

-----------------------------------------------------------------------------
(* Properties *)

\* An ASCII template whose {if}s all have their {endif}, in the same brackets,
\* becomes what it means: of each {if} outside brackets the first branch whose
\* condition holds, or else its {else}, and all the text and values around, in
\* order; what brackets hold stays as it is.
ExpandsToMeaning == template \in DOMAIN Meaning /\ frames = <<>> => expanded = Meaning[template]
=============================================================================
