---------------------------- MODULE InputStreams ----------------------------
(***************************************************************************)
(* Where the interpreter's input comes from: the -L files one after the    *)
(* other, then the terminal, with files loaded from any of them (main and  *)
(* the load command in grammar.y, the end of lex.l), and the prompt.       *)
(*                                                                         *)
(* The lexer and the grammar are there as far as they share state: three   *)
(* flags that the grammar sets decide what a word is to the lexer.         *)
(***************************************************************************)
EXTENDS Integers, SequencesExt

CONSTANTS
    Names, NoName,      \* what a token spells, where that matters
    Files,              \* the files that can be opened
    Content,            \* the tokens of each
    LoadLists,          \* what may be given with -L options, in order
    Lines,              \* what the user may type, as sequences of tokens
    MaxTyped,           \* bound on the number of lines typed
    MaxOpen             \* fopen fails when so many streams are open

\* What the lexer sees, by the rule that matches.
TokenKind == {"load", "command", "abstraction", "marker", "arrow",
              "switch", "word", "path", "number", "eol"}

Token == [kind : TokenKind, text : Names]

ASSUME InputAssumption ==
    /\ NoName \in Names
    /\ \A f \in LoadLists : f \in Seq(Names)
    /\ \A f \in Files : Content[f] \in Seq(Token)
    \* the terminal hands over whole lines
    /\ \A l \in Lines : l \in Seq(Token) /\ l # <<>> /\ l[Len(l)].kind = "eol"
    /\ MaxOpen \in Nat \ {0} /\ MaxTyped \in Nat

VARIABLES
    phase,                  \* which loop of main runs
    load_files,             \* -L files still to be read
    streams,                \* yyin, then file_stack: what is left of each
    typed, ended,           \* lines typed, and whether the user typed control-D
    parser,                 \* where in a statement the parser is
    file_name,              \* $3 of the load command
    looking_for_filename, found_binary_command, found_abstraction,
    prompting, old_prompting, old_prompt,
    prompted,               \* the prompt was printed, and nothing typed since is read
    latest                  \* the token read last

input == <<phase, load_files, streams>>
user == <<typed, ended>>
flags == <<looking_for_filename, found_binary_command, found_abstraction>>
prompts == <<prompting, old_prompting, old_prompt, prompted>>
vars == <<input, user, parser, file_name, flags, prompts, latest>>

Init ==
    /\ phase = "files"
    /\ load_files \in LoadLists
    /\ streams = <<>>
    /\ typed = 0 /\ ended = FALSE
    /\ parser = "start"
    /\ file_name = NoName
    /\ looking_for_filename = FALSE
    /\ found_binary_command = FALSE
    /\ found_abstraction = FALSE
    /\ old_prompt \in {0, 1}          \* 0 with the option -p
    /\ prompting = IF load_files = <<>> THEN old_prompt ELSE 0
    /\ old_prompting = -1
    /\ prompted = FALSE
    /\ latest = <<>>

-----------------------------------------------------------------------------
(* The lexer and the grammar                                               *)

Word ==
    CASE looking_for_filename -> "FILE_NAME"
      [] ~looking_for_filename /\ found_abstraction -> "TK_ABSTR_IDENT"
      [] OTHER -> "TK_IDENTIFIER"

\* The terminal that the lexer makes of a token.
Terminal(token) ==
    CASE token.kind = "load" -> "TK_LOAD"
      [] token.kind = "command" -> "TK_COMMAND"
      [] token.kind = "abstraction" -> "TK_ABSTRACTION"
      [] token.kind = "marker" -> "TK_ABS_MARKR"
      [] token.kind = "arrow" -> "TK_ARROW"
      [] token.kind = "switch" -> IF found_binary_command THEN "BINARY_MODIFIER" ELSE Word
      [] token.kind = "word" -> Word
      [] token.kind = "path" -> "FILE_NAME"
      [] token.kind = "number" -> "NUMERICAL_CONSTANT"
      [] token.kind = "eol" -> "TK_EOL"

\* The statements, as far as they use the flags: from each place in one, the
\* terminals it may go on with, and where to.
Goto ==
    [start       |-> [TK_IDENTIFIER |-> "expression", TK_LOAD |-> "load",
                      TK_COMMAND |-> "command", TK_ABSTRACTION |-> "abstraction",
                      TK_EOL |-> "start"],
     expression  |-> [TK_IDENTIFIER |-> "expression", TK_EOL |-> "start"],
     load        |-> [FILE_NAME |-> "named"],
     named       |-> [TK_EOL |-> "start"],
     command     |-> [BINARY_MODIFIER |-> "switched", TK_EOL |-> "start"],
     switched    |-> [TK_EOL |-> "start"],
     abstraction |-> [TK_ABS_MARKR |-> "marked"],
     marked      |-> [TK_ABSTR_IDENT |-> "pattern"],
     pattern     |-> [TK_ABSTR_IDENT |-> "pattern", TK_ARROW |-> "arrow"],
     arrow       |-> [TK_ABSTR_IDENT |-> "replacement"],
     replacement |-> [TK_ABSTR_IDENT |-> "replacement", TK_EOL |-> "start"]]

\* A terminal that does not fit is a syntax error: the statement is given up
\* and the terminal tried at the start of another ...
Place(t) == IF t \in DOMAIN Goto[parser] THEN parser ELSE "start"

\* ... and dropped if no statement starts with it.
Shifted(t) == IF t \in DOMAIN Goto[Place(t)] THEN Goto[Place(t)][t] ELSE "start"

\* The flags are set when a command begins and taken back when it ends well.
SetFlag(flag, t, begun, within) ==
    \/ Shifted(t) = begun
    \/ flag /\ ~(t = "TK_EOL" /\ Place(t) \in within)

-----------------------------------------------------------------------------
(* lex.l                                                                   *)

\* Plausible slip: every nested load saves the flag anew.
SavedEveryTime == prompting

SavedPrompting == IF old_prompting < 0 THEN prompting ELSE old_prompting

\* fopen: the file must be there, and the process have a descriptor left.
CanOpen(f) == f \in Files /\ Len(streams) < MaxOpen

\* Plausible slip: the new stream is pushed below the one in hand.
PushedBelow(f, rest) == <<rest, Content[f]>> \o Tail(streams)

Pushed(f, rest) == <<Content[f], rest>> \o Tail(streams)

\* push_and_open, at the end of a load command.  rest is what the stream in
\* hand still holds.
push_and_open(f, rest) ==
    \/ /\ CanOpen(f)
       /\ streams' = Pushed(f, rest)
       /\ old_prompting' = SavedPrompting
       /\ prompting' = 0
    \/ /\ ~CanOpen(f)
       /\ streams' = <<rest>> \o Tail(streams)
       /\ UNCHANGED <<prompting, old_prompting>>

AtTerminal == phase = "stdin" /\ Len(streams) = 1

\* yylex and what yyparse does with the token.  A statement that ends prints
\* the prompt (top_level_cleanup).
ReadToken ==
    /\ streams # <<>> /\ Head(streams) # <<>>
    /\ LET token == Head(Head(streams))
           rest == Tail(Head(streams))
           t == Terminal(token)
       IN  /\ latest' = token
           /\ parser' = Shifted(t)
           /\ file_name' = IF Shifted(t) = "named" THEN token.text ELSE file_name
           /\ looking_for_filename' = SetFlag(looking_for_filename, t, "load", {"named"})
           /\ found_binary_command' =
                SetFlag(found_binary_command, t, "command", {"command", "switched"})
           /\ found_abstraction' =
                SetFlag(found_abstraction, t, "abstraction", {"replacement"})
           /\ \/ /\ Place(t) = "named" /\ t = "TK_EOL"
                 /\ push_and_open(file_name, rest)
              \/ /\ ~(Place(t) = "named" /\ t = "TK_EOL")
                 /\ streams' = <<rest>> \o Tail(streams)
                 /\ UNCHANGED <<prompting, old_prompting>>
           /\ prompted' = (t = "TK_EOL" /\ prompting' = 1)
    /\ UNCHANGED <<phase, load_files, user, old_prompt>>

\* Plausible slip: the prompt comes back at the end of any loaded file.
RestoredTooSoon == old_prompting > 0

\* Whether the file stack is empty when yywrap has popped it, and the prompt
\* was on when it was last empty.
Restored == Len(streams) <= 2 /\ old_prompting > 0

RestorePrompt ==
    IF Restored
    THEN prompting' = 1 /\ old_prompting' = -1 /\ prompted' = TRUE
    ELSE UNCHANGED <<prompting, old_prompting, prompted>>

\* Plausible slip: file_stack is popped before yyin is taken from its top.
PoppedFirst == Tail(Tail(streams))

Popped == Tail(streams)

\* yywrap at the end of a loaded file: back to the stream before it, in the
\* middle of a statement too.
EndOfLoadedFile ==
    /\ Len(streams) > 1 /\ Head(streams) = <<>>
    /\ streams' = Popped
    /\ RestorePrompt
    /\ UNCHANGED <<phase, load_files, user, parser, file_name, flags, old_prompt, latest>>

-----------------------------------------------------------------------------
(* main                                                                    *)

\* The end of a -L file ends yyparse, and with it a statement not finished.
EndOfLoadFile ==
    /\ phase = "files"
    /\ streams = <<<<>>>>
    /\ streams' = <<>>
    /\ parser' = "start"
    /\ RestorePrompt
    /\ UNCHANGED <<phase, load_files, user, file_name, flags, old_prompt, latest>>

\* Plausible slip: the loop goes on only after a file that could be opened.
RemainingIfOpened ==
    IF CanOpen(Head(load_files)) THEN Tail(load_files) ELSE load_files

Remaining == Tail(load_files)

NextLoadFile ==
    /\ phase = "files"
    /\ streams = <<>> /\ load_files # <<>>
    /\ load_files' = Remaining
    /\ streams' = IF CanOpen(Head(load_files)) THEN <<Content[Head(load_files)]>> ELSE <<>>
    /\ UNCHANGED <<phase, user, parser, file_name, flags, prompts, latest>>

\* set_yyin_stdin, and the first prompt.
StartTerminal ==
    /\ phase = "files"
    /\ streams = <<>> /\ load_files = <<>>
    /\ phase' = "stdin"
    /\ streams' = <<<<>>>>
    /\ prompting' = old_prompt
    /\ prompted' = (old_prompt = 1)
    /\ UNCHANGED <<load_files, user, parser, file_name, flags, old_prompting, old_prompt, latest>>

\* Control-D, once everything typed before has been read: yyparse returns.
Quit ==
    /\ AtTerminal /\ Head(streams) = <<>> /\ ended
    /\ phase' = "over"
    /\ streams' = <<>>
    /\ parser' = "start"
    /\ RestorePrompt
    /\ UNCHANGED <<load_files, user, file_name, flags, old_prompt, latest>>

\* The user may type at any time, also while a file is being read.
TypeLine ==
    /\ phase = "stdin" /\ ~ended /\ typed < MaxTyped
    /\ \E l \in Lines :
         streams' = [streams EXCEPT ![Len(streams)] = @ \o l]
    /\ typed' = typed + 1
    /\ UNCHANGED <<phase, load_files, ended, parser, file_name, flags, prompts, latest>>

TypeEnd ==
    /\ phase = "stdin" /\ ~ended
    /\ ended' = TRUE
    /\ UNCHANGED <<input, typed, parser, file_name, flags, prompts, latest>>

Over == phase = "over" /\ UNCHANGED vars

Work ==
    \/ ReadToken \/ EndOfLoadedFile
    \/ EndOfLoadFile \/ NextLoadFile \/ StartTerminal \/ Quit

Next == Work \/ TypeLine \/ TypeEnd \/ Over

Spec == Init /\ [][Next]_vars

\* The process runs; the user may stay away for ever.
FairSpec == Spec /\ WF_vars(Work)

-----------------------------------------------------------------------------
(* Properties                                                              *)

\* Every variable has its type, and while the interpreter reads the terminal
\* there is a stream to read, whatever has been loaded and come to its end.
TypeOK ==
    /\ phase \in {"files", "stdin", "over"}
    /\ load_files \in Seq(Names)
    /\ streams \in Seq(Seq(Token))
    /\ phase = "stdin" => streams # <<>>
    /\ phase = "over" => streams = <<>>
    /\ typed \in 0..MaxTyped /\ ended \in BOOLEAN
    /\ parser \in DOMAIN Goto
    /\ file_name \in Names
    /\ looking_for_filename \in BOOLEAN
    /\ found_binary_command \in BOOLEAN
    /\ found_abstraction \in BOOLEAN
    /\ prompting \in {0, 1} /\ old_prompting \in {-1, 0, 1} /\ old_prompt \in {0, 1}
    /\ prompted \in BOOLEAN

Waiting == AtTerminal /\ Head(streams) = <<>>

\* When the interpreter waits for a statement to be typed, it has printed the
\* prompt (README.md:99-101), whatever was loaded before and whether or not
\* the last line was a statement.
PromptWhenWaiting ==
    Waiting /\ parser = "start" /\ old_prompt = 1 => prompted /\ prompting = 1

\* No prompt is printed on account of a file's lines, at any depth of loads,
\* and with -p none at all (lex.l:232-234 and 304-312).
FilesReadQuietly ==
    /\ streams # <<>> /\ ~AtTerminal => prompting = 0
    /\ old_prompt = 0 => prompting = 0 /\ ~prompted

\* What was saved when the prompt had been off stays off: in the -L files, and
\* with -p for good.
SavedIsOff == phase = "files" \/ old_prompt = 0 => old_prompting # 1

\* The -L files are read with the prompt off from the first one on.
LoadingIsQuiet == phase = "files" /\ load_files # <<>> => prompting = 0

IInv == TypeOK /\ FilesReadQuietly /\ SavedIsOff /\ LoadingIsQuiet

\* When it waits for a statement, a word is a variable (README.md:126-128), so
\* that an expression can be typed.
WordsAreVariables == Waiting /\ parser = "start" => Word = "TK_IDENTIFIER"

\* Every file is read to its end, one that loads itself included, and the
\* interpreter comes back to the user.
ReadToTheEnd == []<>(Waiting \/ phase = "over")

\* Every token that is read is the next one of a single text, into which a
\* loaded file is put where its load command ended.
Text == INSTANCE OneText WITH
    Contents <- {Content[f] : f \in Files},
    ahead <- FlattenSeq(streams)

ImplementsOneText == Text!Spec

=============================================================================
