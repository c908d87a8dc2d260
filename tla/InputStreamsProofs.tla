------------------------- MODULE InputStreamsProofs -------------------------
(***************************************************************************)
(* Theorems about the input streams, for every set of files however they   *)
(* load each other, every list of -L options and everything that is typed. *)
(***************************************************************************)
EXTENDS InputStreams, SequenceTheorems, WellFoundedInduction, TLAPS

\* The places in a statement are closed under the terminals.
LEMMA PlacesClosed ==
    ASSUME NEW s \in DOMAIN Goto, NEW t \in DOMAIN Goto[s]
    PROVE  Goto[s][t] \in DOMAIN Goto
BY DEF Goto

\* Wherever the parser was, a token leaves it at some place in a statement.
LEMMA ShiftedIsPlace ==
    ASSUME parser \in DOMAIN Goto, NEW t
    PROVE  Shifted(t) \in DOMAIN Goto
<1>1. "start" \in DOMAIN Goto
  BY DEF Goto
<1>2. Place(t) \in DOMAIN Goto
  BY <1>1 DEF Place
<1> QED
  BY <1>1, <1>2, PlacesClosed DEF Shifted

-----------------------------------------------------------------------------
(* The stack of streams                                                    *)

\* Taking a token leaves as many streams.
LEMMA TopReplaced ==
    ASSUME NEW T, NEW st \in Seq(T), st # <<>>, NEW r \in T
    PROVE  /\ <<r>> \o Tail(st) \in Seq(T)
           /\ Len(<<r>> \o Tail(st)) = Len(st)
<1>1. Tail(st) \in Seq(T) /\ Len(Tail(st)) = Len(st) - 1 /\ Len(st) \in Nat
  OBVIOUS
<1>2. <<r>> \in Seq(T) /\ Len(<<r>>) = 1
  OBVIOUS
<1> QED
  BY <1>1, <1>2

\* At the end of a file there is one less.
LEMMA TopDropped ==
    ASSUME NEW T, NEW st \in Seq(T), st # <<>>
    PROVE  /\ Tail(st) \in Seq(T)
           /\ Len(Tail(st)) = Len(st) - 1
           /\ Tail(st) # <<>> => Len(Tail(st)) # 0
OBVIOUS

\* Opening a file makes one more.
LEMMA TopPushed ==
    ASSUME NEW T, NEW st \in Seq(T), st # <<>>, NEW c \in T, NEW r \in T
    PROVE  /\ <<c, r>> \o Tail(st) \in Seq(T)
           /\ Len(<<c, r>> \o Tail(st)) = Len(st) + 1
<1>1. Tail(st) \in Seq(T) /\ Len(Tail(st)) = Len(st) - 1 /\ Len(st) \in Nat
  OBVIOUS
<1>2. <<c, r>> \in Seq(T) /\ Len(<<c, r>>) = 2
  OBVIOUS
<1> QED
  BY <1>1, <1>2

-----------------------------------------------------------------------------
(* The invariant                                                           *)

\* Types, the prompt that is off while files are read, and the saved setting
\* that stays off.
LEMMA InitInvariant ==
    ASSUME InputAssumption, Init
    PROVE  IInv
<1>1. TypeOK
  <2>1. parser \in DOMAIN Goto
    BY DEF Init, Goto
  <2>2. load_files \in Seq(Names) /\ streams \in Seq(Seq(Token)) /\ Len(streams) = 0
    <3>1. load_files \in Seq(Names)
      BY DEF Init, InputAssumption
    <3>2. streams = <<>>
      BY DEF Init
    <3> QED
      BY <3>1, <3>2
  <2>3. MaxTyped \in Nat
    BY DEF InputAssumption
  <2>4. prompting \in {0, 1}
    BY DEF Init
  <2>5. /\ looking_for_filename \in BOOLEAN
        /\ found_binary_command \in BOOLEAN
        /\ found_abstraction \in BOOLEAN
        /\ prompted \in BOOLEAN /\ ended \in BOOLEAN
    BY DEF Init
  <2>6. phase = "files" /\ typed = 0 /\ old_prompting = -1 /\ old_prompt \in {0, 1}
    BY DEF Init
  <2>7. file_name \in Names
    BY DEF Init, InputAssumption
  <2> QED
    BY <2>1, <2>2, <2>3, <2>4, <2>5, <2>6, <2>7 DEF TypeOK
<1>2. FilesReadQuietly
  BY DEF Init, FilesReadQuietly
<1>3. SavedIsOff
  <2>1. old_prompting = -1
    BY DEF Init
  <2> QED
    BY <2>1 DEF SavedIsOff
<1>4. LoadingIsQuiet
  <2>1. load_files # <<>> => prompting = 0
    BY DEF Init
  <2> QED
    BY <2>1 DEF LoadingIsQuiet
<1> QED
  BY <1>1, <1>2, <1>3, <1>4 DEF IInv

\* A token that is read, with the load command it may end.
LEMMA ReadTokenKeeps ==
    ASSUME InputAssumption, IInv, ReadToken
    PROVE  IInv'
<1> DEFINE token == Head(Head(streams))
           rest == Tail(Head(streams))
           t == Terminal(token)
<1>1. /\ streams \in Seq(Seq(Token)) /\ streams # <<>>
      /\ Head(streams) \in Seq(Token) /\ Head(streams) # <<>>
  BY DEF IInv, TypeOK, ReadToken
<1>2. rest \in Seq(Token) /\ token \in Token
  BY <1>1
<1>3. parser' \in DOMAIN Goto
  BY ShiftedIsPlace DEF IInv, TypeOK, ReadToken
<1>4. file_name' \in Names
  BY <1>2 DEF IInv, TypeOK, ReadToken, Token
<1>5. /\ looking_for_filename' \in BOOLEAN
      /\ found_binary_command' \in BOOLEAN
      /\ found_abstraction' \in BOOLEAN
  BY DEF ReadToken, SetFlag
<1>6. /\ UNCHANGED <<phase, load_files, typed, ended, old_prompt>>
      /\ prompted' = (t = "TK_EOL" /\ prompting' = 1)
  BY DEF ReadToken, user
<1>7. prompted' \in BOOLEAN /\ (prompting' = 0 => ~prompted')
  <2>1. prompted' \in BOOLEAN
    BY <1>6, Zenon
  <2>2. prompting' = 0 => prompting' # 1
    OBVIOUS
  <2>3. prompting' # 1 => ~prompted'
    BY <1>6, Zenon
  <2> QED
    BY <2>1, <2>2, <2>3, Zenon
<1>8. \/ push_and_open(file_name, rest)
      \/ /\ streams' = <<rest>> \o Tail(streams)
         /\ UNCHANGED <<prompting, old_prompting>>
  BY DEF ReadToken
<1>9. \/ /\ CanOpen(file_name)
         /\ streams' = <<Content[file_name], rest>> \o Tail(streams)
         /\ old_prompting' = SavedPrompting
         /\ prompting' = 0
      \/ /\ streams' = <<rest>> \o Tail(streams)
         /\ UNCHANGED <<prompting, old_prompting>>
  BY <1>8 DEF push_and_open, Pushed
<1> HIDE DEF token, rest, t
<1>10. CASE /\ streams' = <<rest>> \o Tail(streams)
            /\ UNCHANGED <<prompting, old_prompting>>
  <2>1. streams' \in Seq(Seq(Token)) /\ Len(streams') = Len(streams)
    BY <1>1, <1>2, <1>10, TopReplaced
  <2>2. TypeOK'
    BY <1>1, <1>3, <1>4, <1>5, <1>6, <1>7, <1>10, <2>1 DEF IInv, TypeOK
  <2>3. FilesReadQuietly'
    BY <1>1, <1>6, <1>7, <1>10, <2>1 DEF IInv, FilesReadQuietly, AtTerminal
  <2>4. SavedIsOff' /\ LoadingIsQuiet'
    BY <1>6, <1>10 DEF IInv, SavedIsOff, LoadingIsQuiet
  <2> QED
    BY <2>2, <2>3, <2>4 DEF IInv
<1>11. CASE /\ CanOpen(file_name)
            /\ streams' = <<Content[file_name], rest>> \o Tail(streams)
            /\ old_prompting' = SavedPrompting
            /\ prompting' = 0
  <2>1. Content[file_name] \in Seq(Token)
    BY <1>11 DEF CanOpen, InputAssumption
  <2>2. streams' \in Seq(Seq(Token)) /\ Len(streams') = Len(streams) + 1
    BY <1>1, <1>2, <1>11, <2>1, TopPushed
  <2>3. streams' # <<>>
    BY <1>1, <2>2
  <2>4. old_prompting' \in {-1, 0, 1}
    BY <1>11 DEF IInv, TypeOK, SavedPrompting
  <2>5. TypeOK'
    BY <1>3, <1>4, <1>5, <1>6, <1>7, <1>11, <2>2, <2>3, <2>4 DEF IInv, TypeOK
  <2>6. FilesReadQuietly'
    BY <1>7, <1>11 DEF FilesReadQuietly
  <2>7. SavedIsOff'
    <3>1. phase = "files" \/ old_prompt = 0 => prompting = 0
      BY <1>1 DEF IInv, FilesReadQuietly, AtTerminal
    <3> QED
      BY <1>6, <1>11, <3>1 DEF IInv, SavedIsOff, SavedPrompting
  <2>8. LoadingIsQuiet'
    BY <1>11 DEF LoadingIsQuiet
  <2> QED
    BY <2>5, <2>6, <2>7, <2>8 DEF IInv
<1> QED
  BY <1>9, <1>10, <1>11

\* yywrap, where streams lost its top.
LEMMA WrapKeeps ==
    ASSUME InputAssumption, IInv, RestorePrompt,
           streams # <<>>, streams' = Tail(streams), streams' # <<>>,
           phase' = phase, load_files' = load_files, old_prompt' = old_prompt,
           typed' = typed, ended' = ended, parser' \in DOMAIN Goto,
           UNCHANGED <<file_name, flags>>
    PROVE  IInv'
<1>1. streams \in Seq(Seq(Token))
  BY DEF IInv, TypeOK
<1>2. /\ streams' \in Seq(Seq(Token)) /\ Len(streams') = Len(streams) - 1
      /\ Len(streams) \in Nat /\ Len(streams') # 0
  <2>1. /\ streams' \in Seq(Seq(Token)) /\ Len(streams') = Len(streams) - 1
        /\ Len(streams') # 0
    BY <1>1, TopDropped
  <2>2. Len(streams) \in Nat
    BY <1>1
  <2> QED
    BY <1>1, <2>1, <2>2
<1>3. CASE Restored
  <2>1. prompting' = 1 /\ old_prompting' = -1 /\ prompted' = TRUE
    BY <1>3 DEF RestorePrompt
  <2>2. old_prompting = 1 /\ Len(streams) <= 2
    BY <1>3 DEF IInv, TypeOK, Restored
  <2>3. phase # "files" /\ old_prompt # 0
    BY <2>2 DEF IInv, SavedIsOff
  <2>4. phase = "stdin" /\ Len(streams') = 1
    <3>1. phase \in {"files", "stdin", "over"} /\ phase # "over"
      BY DEF IInv, TypeOK
    <3>2. phase = "stdin"
      BY <2>3, <3>1
    <3> DEFINE n == Len(streams)
               k == Len(streams')
    <3>3. k = n - 1 /\ n \in Nat /\ n <= 2 /\ k # 0 /\ n # 0
      BY <1>1, <1>2, <2>2
    <3> HIDE DEF n, k
    <3>4. k = 1
      BY <3>3
    <3> QED
      BY <3>2, <3>4 DEF k
  <2>5. TypeOK'
    BY <1>2, <2>1 DEF IInv, TypeOK, flags
  <2>6. FilesReadQuietly' /\ SavedIsOff' /\ LoadingIsQuiet'
    BY <2>1, <2>3, <2>4 DEF FilesReadQuietly, AtTerminal, SavedIsOff, LoadingIsQuiet
  <2> QED
    BY <2>5, <2>6 DEF IInv
<1>4. CASE ~Restored
  <2>1. UNCHANGED <<prompting, old_prompting, prompted>>
    BY <1>4 DEF RestorePrompt
  <2>2. TypeOK'
    BY <1>2, <2>1 DEF IInv, TypeOK, flags
  <2>3. FilesReadQuietly' /\ SavedIsOff' /\ LoadingIsQuiet'
    BY <1>2, <2>1 DEF IInv, FilesReadQuietly, AtTerminal, SavedIsOff, LoadingIsQuiet
  <2> QED
    BY <2>2, <2>3 DEF IInv
<1> QED
  BY <1>3, <1>4

\* yywrap, where no stream is left: the prompt never comes back there, since
\* it was back before.
LEMMA LastWrapKeeps ==
    ASSUME InputAssumption, IInv, RestorePrompt,
           streams # <<>>, streams' = <<>>,
           \/ phase = "files" /\ phase' = "files"
           \/ AtTerminal /\ phase' = "over",
           UNCHANGED <<load_files, user, file_name, flags, old_prompt>>,
           parser' = "start"
    PROVE  IInv'
<1>1. Len(streams') = 0 /\ streams' \in Seq(Seq(Token))
  OBVIOUS
<1>2. parser' \in DOMAIN Goto
  BY DEF Goto
<1>3. /\ phase \in {"files", "stdin", "over"} /\ phase' \in {"files", "over"}
      /\ phase' = "files" => phase = "files"
  BY DEF AtTerminal
<1>4. CASE Restored
  <2>1. prompting' = 1 /\ old_prompting' = -1 /\ prompted' = TRUE
    BY <1>4 DEF RestorePrompt
  <2>2. old_prompting = 1
    BY <1>4 DEF IInv, TypeOK, Restored
  <2>3. phase # "files" /\ old_prompt # 0
    BY <2>2 DEF IInv, SavedIsOff
  <2>4. TypeOK'
    BY <1>1, <1>2, <1>3, <2>1, <2>3 DEF IInv, TypeOK, flags, user
  <2>5. FilesReadQuietly' /\ SavedIsOff' /\ LoadingIsQuiet'
    BY <1>3, <2>1, <2>3 DEF FilesReadQuietly, SavedIsOff, LoadingIsQuiet
  <2> QED
    BY <2>4, <2>5 DEF IInv
<1>5. CASE ~Restored
  <2>1. UNCHANGED <<prompting, old_prompting, prompted>>
    BY <1>5 DEF RestorePrompt
  <2>2. TypeOK'
    BY <1>1, <1>2, <1>3, <2>1 DEF IInv, TypeOK, flags, user
  <2>3. FilesReadQuietly' /\ SavedIsOff' /\ LoadingIsQuiet'
    BY <1>3, <2>1 DEF IInv, FilesReadQuietly, SavedIsOff, LoadingIsQuiet
  <2> QED
    BY <2>2, <2>3 DEF IInv
<1> QED
  BY <1>4, <1>5

\* The loops of main.
LEMMA MainKeeps ==
    ASSUME InputAssumption, IInv, NextLoadFile \/ StartTerminal
    PROVE  IInv'
<1>1. /\ phase = "files" /\ streams = <<>>
      /\ UNCHANGED <<user, parser, file_name, flags, old_prompting, old_prompt>>
  BY DEF NextLoadFile, StartTerminal, prompts
<1>2. CASE NextLoadFile
  <2>1. /\ load_files # <<>> /\ load_files' = Tail(load_files)
        /\ UNCHANGED <<phase, prompts>>
        /\ \/ streams' = <<>>
           \/ /\ Head(load_files) \in Files
              /\ streams' = <<Content[Head(load_files)]>>
    BY <1>2 DEF NextLoadFile, Remaining, CanOpen
  <2>2. load_files' \in Seq(Names)
    BY <2>1 DEF IInv, TypeOK
  <2>3. streams' \in Seq(Seq(Token))
    <3>1. CASE streams' = <<>>
      BY <3>1
    <3>2. CASE Head(load_files) \in Files /\ streams' = <<Content[Head(load_files)]>>
      <4>1. Content[Head(load_files)] \in Seq(Token)
        BY <3>2 DEF InputAssumption
      <4> QED
        BY <3>2, <4>1
    <3> QED
      BY <2>1, <3>1, <3>2
  <2>4. prompting = 0 /\ UNCHANGED <<prompting, prompted>>
    BY <1>1, <2>1 DEF IInv, LoadingIsQuiet, prompts
  <2>5. TypeOK'
    BY <1>1, <2>1, <2>2, <2>3, <2>4 DEF IInv, TypeOK, flags, user
  <2>6. FilesReadQuietly' /\ SavedIsOff' /\ LoadingIsQuiet'
    BY <1>1, <2>1, <2>4 DEF IInv, FilesReadQuietly, SavedIsOff, LoadingIsQuiet
  <2> QED
    BY <2>5, <2>6 DEF IInv
<1>3. CASE StartTerminal
  <2>1. /\ phase' = "stdin" /\ streams' = <<<<>>>>
        /\ prompting' = old_prompt /\ prompted' = (old_prompt = 1)
        /\ load_files' = load_files
    BY <1>3 DEF StartTerminal
  <2>2. streams' \in Seq(Seq(Token)) /\ Len(streams') = 1 /\ streams' # <<>>
    BY <2>1
  <2>3. prompted' \in BOOLEAN /\ (old_prompt = 0 => ~prompted')
    <3>1. old_prompt = 0 => old_prompt # 1
      OBVIOUS
    <3>2. prompted' = (old_prompt = 1)
      BY <2>1
    <3> QED
      BY <3>1, <3>2, Zenon
  <2>4. TypeOK'
    BY <1>1, <2>1, <2>2, <2>3 DEF IInv, TypeOK, flags, user
  <2>5. FilesReadQuietly'
    BY <1>1, <2>1, <2>2, <2>3 DEF FilesReadQuietly, AtTerminal
  <2>6. SavedIsOff' /\ LoadingIsQuiet'
    BY <1>1, <2>1 DEF IInv, SavedIsOff, LoadingIsQuiet
  <2> QED
    BY <2>4, <2>5, <2>6 DEF IInv
<1> QED
  BY <1>2, <1>3

\* The user.
LEMMA UserKeeps ==
    ASSUME InputAssumption, IInv, TypeLine \/ TypeEnd
    PROVE  IInv'
<1>1. /\ phase = "stdin" /\ streams \in Seq(Seq(Token)) /\ streams # <<>>
      /\ UNCHANGED <<phase, load_files, parser, file_name, flags, prompts>>
  BY DEF IInv, TypeOK, TypeLine, TypeEnd, input
<1>2. /\ streams' \in Seq(Seq(Token)) /\ Len(streams') = Len(streams)
      /\ streams' # <<>>
  <2>1. CASE TypeEnd
    BY <1>1, <2>1 DEF TypeEnd, input
  <2>2. CASE TypeLine
    <3>1. PICK l \in Lines : streams' = [streams EXCEPT ![Len(streams)] = @ \o l]
      BY <2>2 DEF TypeLine
    <3>2. l \in Seq(Token)
      BY DEF InputAssumption
    <3>3. Len(streams) \in 1..Len(streams) /\ streams[Len(streams)] \in Seq(Token)
      BY <1>1
    <3>4. streams[Len(streams)] \o l \in Seq(Token)
      BY <3>2, <3>3
    <3>5. streams' = [streams EXCEPT ![Len(streams)] = streams[Len(streams)] \o l]
      BY <3>1
    <3> DEFINE longer == streams[Len(streams)] \o l
    <3>6. streams' = [streams EXCEPT ![Len(streams)] = longer] /\ longer \in Seq(Token)
      BY <3>4, <3>5
    <3> HIDE DEF longer
    <3> QED
      BY <1>1, <3>3, <3>6
  <2> QED
    BY <2>1, <2>2
<1>3. typed' \in 0..MaxTyped /\ ended' \in BOOLEAN
  <2>1. typed \in 0..MaxTyped /\ MaxTyped \in Nat /\ ended \in BOOLEAN
    BY DEF IInv, TypeOK, InputAssumption
  <2>2. CASE TypeEnd
    BY <2>1, <2>2 DEF TypeEnd
  <2>3. CASE TypeLine
    <3>1. typed' = typed + 1 /\ typed < MaxTyped /\ ended' = ended
      BY <2>3 DEF TypeLine
    <3>2. typed' \in 0..MaxTyped
      BY <2>1, <3>1
    <3> QED
      BY <2>1, <3>1, <3>2
  <2> QED
    BY <2>2, <2>3
<1>4. TypeOK'
  BY <1>1, <1>2, <1>3 DEF IInv, TypeOK, flags, prompts
<1>5. FilesReadQuietly' /\ SavedIsOff' /\ LoadingIsQuiet'
  BY <1>1, <1>2 DEF IInv, FilesReadQuietly, AtTerminal, SavedIsOff, LoadingIsQuiet, prompts
<1> QED
  BY <1>4, <1>5 DEF IInv

\* Every step keeps the invariant.
LEMMA NextKeepsInvariant ==
    ASSUME InputAssumption, IInv, [Next]_vars
    PROVE  IInv'
<1>1. CASE ReadToken
  BY <1>1, ReadTokenKeeps
<1>2. CASE EndOfLoadedFile
  <2>1. streams # <<>> /\ Tail(streams) # <<>>
    <3>1. streams \in Seq(Seq(Token)) /\ Len(streams) > 1 /\ streams # <<>>
      BY <1>2 DEF IInv, TypeOK, EndOfLoadedFile
    <3> DEFINE n == Len(streams)
               k == Len(Tail(streams))
    <3>2. k = n - 1 /\ n \in Nat /\ n > 1
      BY <3>1, TopDropped
    <3> HIDE DEF n, k
    <3>3. k # 0
      BY <3>2
    <3>4. Len(<<>>) = 0
      OBVIOUS
    <3>5. Tail(streams) # <<>>
      BY <3>3, <3>4, Zenon DEF k
    <3> QED
      BY <3>1, <3>5
  <2>2. parser' \in DOMAIN Goto
    BY <1>2 DEF IInv, TypeOK, EndOfLoadedFile
  <2> QED
    BY <1>2, <2>1, <2>2, WrapKeeps DEF EndOfLoadedFile, Popped, user
<1>3. CASE EndOfLoadFile
  BY <1>3, LastWrapKeeps DEF EndOfLoadFile
<1>4. CASE Quit
  <2>1. streams # <<>>
    BY <1>4 DEF Quit, AtTerminal
  <2> QED
    BY <1>4, <2>1, LastWrapKeeps DEF Quit
<1>5. CASE NextLoadFile \/ StartTerminal
  BY <1>5, MainKeeps
<1>6. CASE TypeLine \/ TypeEnd
  BY <1>6, UserKeeps
<1>7. CASE UNCHANGED vars
  BY <1>7 DEF vars, input, user, flags, prompts, IInv, TypeOK, FilesReadQuietly,
     AtTerminal, SavedIsOff, LoadingIsQuiet
<1> QED
  BY <1>1, <1>2, <1>3, <1>4, <1>5, <1>6, <1>7 DEF Next, Work, Over

\* The conjunction is inductive: that the prompt stays off needs what was
\* saved before, and what was saved needs the prompt to have been off.
THEOREM Invariance ==
    ASSUME InputAssumption
    PROVE  Spec => []IInv
BY InitInvariant, NextKeepsInvariant, PTL DEF Spec

\* Type correctness: the parser is always at a place of the grammar, and there
\* is a stream to read from.
THEOREM TypeCorrectness ==
    ASSUME InputAssumption
    PROVE  Spec => []TypeOK
<1>1. IInv => TypeOK
  BY DEF IInv
<1> QED
  BY <1>1, Invariance, PTL

\* However files load each other, no line of theirs prints a prompt, and with
\* -p none is ever printed.
THEOREM FilesStayQuiet ==
    ASSUME InputAssumption
    PROVE  Spec => []FilesReadQuietly
<1>1. IInv => FilesReadQuietly
  BY DEF IInv
<1> QED
  BY <1>1, Invariance, PTL

-----------------------------------------------------------------------------
(* The prompt comes back                                                   *)

\* No -L file loads another.
LoadFilesLoadNothing == phase = "files" => Len(streams) <= 1

\* What was typed ends with the end of a line.
Ended(s) == s = <<>> \/ s[Len(s)].kind = "eol"

\* What the prompt is when a file that was loaded from the terminal ends
\* depends on what was saved when the first one was opened.
PromptKept ==
    /\ phase = "files" => old_prompting = -1
    /\ phase = "stdin" => Ended(streams[Len(streams)])
    /\ phase = "stdin" /\ old_prompt = 1 =>
          IF Len(streams) = 1
          THEN prompting = 1 /\ old_prompting = -1 /\ (Head(streams) = <<>> => prompted)
          ELSE old_prompting = 1

\* The bottom of the stack, where the terminal is, when the top is replaced,
\* dropped or pushed upon.
LEMMA Bottom ==
    ASSUME NEW T, NEW st \in Seq(T), st # <<>>, NEW r \in T, NEW c \in T
    PROVE  /\ Len(st) \in Nat \ {0} /\ Head(st) = st[1]
           /\ LET st1 == <<r>> \o Tail(st)
              IN  /\ Len(st1) = Len(st) /\ Head(st1) = r
                  /\ st1[Len(st1)] = IF Len(st) = 1 THEN r ELSE st[Len(st)]
           /\ LET st2 == <<c, r>> \o Tail(st)
              IN  /\ Len(st2) = Len(st) + 1
                  /\ st2[Len(st2)] = IF Len(st) = 1 THEN r ELSE st[Len(st)]
           /\ Len(st) > 1 => Len(Tail(st)) = Len(st) - 1 /\ Tail(st)[Len(st) - 1] = st[Len(st)]
<1> DEFINE k == Len(st)
           t == Tail(st)
<1>1. k \in Nat \ {0} /\ t \in Seq(T) /\ Len(t) = k - 1 /\ Head(st) = st[1]
  OBVIOUS
<1>2. \A i \in 1..k - 1 : t[i] = st[i + 1]
  OBVIOUS
<1> HIDE DEF t
<1>3. LET st1 == <<r>> \o t
      IN  /\ Len(st1) = k /\ Head(st1) = r
          /\ st1[k] = IF k = 1 THEN r ELSE t[k - 1]
  BY <1>1
<1>4. LET st2 == <<c, r>> \o t
      IN  /\ Len(st2) = k + 1
          /\ st2[k + 1] = IF k = 1 THEN r ELSE t[k - 1]
  <2> DEFINE two == <<c, r>>
  <2>1. two \in Seq(T) /\ Len(two) = 2 /\ two[2] = r
    OBVIOUS
  <2> HIDE DEF two, k
  <2>2. /\ Len(two \o t) = k + 1
        /\ \A i \in 1..k + 1 : (two \o t)[i] = IF i <= 2 THEN two[i] ELSE t[i - 2]
    <3>1. /\ Len(two \o t) = Len(two) + Len(t)
          /\ \A i \in 1..Len(two) + Len(t) :
                (two \o t)[i] = IF i <= Len(two) THEN two[i] ELSE t[i - Len(two)]
      BY <1>1, <2>1, ConcatProperties
    <3>2. Len(two) + Len(t) = k + 1
      BY <1>1, <2>1
    <3> QED
      BY <2>1, <3>1, <3>2
  <2>3. k = 1 \/ k > 1
    BY <1>1
  <2>4. (two \o t)[k + 1] = IF k = 1 THEN r ELSE t[k - 1]
    BY <1>1, <2>1, <2>2, <2>3
  <2> QED
    BY <2>2, <2>4 DEF two
<1>5. k # 1 => t[k - 1] = st[k]
  BY <1>1, <1>2
<1> QED
  BY <1>1, <1>3, <1>4, <1>5 DEF t

\* The same when another element is pushed upon the stack.
LEMMA Pushing ==
    ASSUME NEW T, NEW st \in Seq(T), st # <<>>, NEW r \in T, NEW c \in T,
           NEW st2, st2 = <<c, r>> \o Tail(st)
    PROVE  /\ Len(st2) = Len(st) + 1
           /\ st2[Len(st2)] = IF Len(st) = 1 THEN r ELSE st[Len(st)]
BY Bottom

\* Reading what was typed, and typing more.
LEMMA EndedKept ==
    ASSUME NEW s \in Seq(Token), Ended(s)
    PROVE  /\ s # <<>> => Ended(Tail(s))
           /\ s # <<>> /\ Tail(s) = <<>> => Head(s).kind = "eol"
           /\ \A l \in Lines : InputAssumption => Ended(s \o l) /\ s \o l # <<>>
<1>1. ASSUME s # <<>> PROVE Ended(Tail(s)) /\ (Tail(s) = <<>> => Head(s).kind = "eol")
  <2>1. /\ Len(s) \in Nat \ {0} /\ Tail(s) \in Seq(Token) /\ Len(Tail(s)) = Len(s) - 1
        /\ Head(s) = s[1] /\ s[Len(s)].kind = "eol"
    BY <1>1 DEF Ended
  <2>2. Tail(s) = <<>> => Len(s) = 1
    <3> DEFINE n == Len(s)
               k == Len(Tail(s))
    <3>1. n \in Nat /\ k = n - 1
      BY <2>1
    <3> HIDE DEF n, k
    <3>2. k = 0 => n = 1
      BY <3>1
    <3>3. Len(<<>>) = 0
      OBVIOUS
    <3> QED
      BY <3>2, <3>3, Zenon DEF n, k
  <2>3. Tail(s) # <<>> => Tail(s)[Len(Tail(s))] = s[Len(s)]
    BY <1>1, <2>1
  <2> QED
    BY <2>1, <2>2, <2>3 DEF Ended
<1>2. ASSUME InputAssumption, NEW l \in Lines PROVE Ended(s \o l) /\ s \o l # <<>>
  <2>1. l \in Seq(Token) /\ l # <<>> /\ l[Len(l)].kind = "eol"
    BY <1>2 DEF InputAssumption
  <2>2. (s \o l)[Len(s \o l)] = l[Len(l)] /\ s \o l # <<>>
    BY <2>1
  <2> QED
    BY <2>1, <2>2 DEF Ended
<1> QED
  BY <1>1, <1>2

\* A token read from a file or from the terminal.
LEMMA ReadTokenPrompts ==
    ASSUME InputAssumption, IInv, PromptKept, LoadFilesLoadNothing', ReadToken
    PROVE  PromptKept'
<1> DEFINE token == Head(Head(streams))
           rest == Tail(Head(streams))
           t == Terminal(token)
<1>1. /\ streams \in Seq(Seq(Token)) /\ streams # <<>>
      /\ Head(streams) \in Seq(Token) /\ Head(streams) # <<>>
      /\ old_prompting \in {-1, 0, 1} /\ Len(streams) \in Nat \ {0}
  BY Bottom DEF IInv, TypeOK, ReadToken
<1>2. rest \in Seq(Token)
  BY <1>1
<1>3. /\ UNCHANGED <<phase, old_prompt>>
      /\ prompted' = (t = "TK_EOL" /\ prompting' = 1)
  BY DEF ReadToken
<1>4. \/ /\ file_name \in Files
         /\ streams' = <<Content[file_name], rest>> \o Tail(streams)
         /\ old_prompting' = SavedPrompting
      \/ /\ streams' = <<rest>> \o Tail(streams)
         /\ UNCHANGED <<prompting, old_prompting>>
  BY DEF ReadToken, push_and_open, Pushed, CanOpen
<1>5. token.kind = "eol" => t = "TK_EOL"
  BY DEF Terminal
<1>6. Head(streams) = streams[1]
  BY <1>1, Bottom
<1>7. phase = "stdin" /\ Len(streams) = 1 => Ended(rest) /\ (rest = <<>> => token.kind = "eol")
  <2> SUFFICES ASSUME phase = "stdin", Len(streams) = 1
               PROVE  Ended(rest) /\ (rest = <<>> => token.kind = "eol")
    OBVIOUS
  <2>1. Ended(Head(streams))
    BY <1>6 DEF PromptKept
  <2> QED
    BY <1>1, <2>1, EndedKept
<1> HIDE DEF token, rest, t
<1>8. CASE /\ file_name \in Files
           /\ streams' = <<Content[file_name], rest>> \o Tail(streams)
           /\ old_prompting' = SavedPrompting
  <2>1. Content[file_name] \in Seq(Token)
    BY <1>8 DEF InputAssumption
  <2>2. /\ Len(streams') = Len(streams) + 1
        /\ streams'[Len(streams')] = IF Len(streams) = 1 THEN rest ELSE streams[Len(streams)]
    <3>1. streams \in Seq(Seq(Token)) /\ streams # <<>>
      BY <1>1
    <3>2. streams' = <<Content[file_name], rest>> \o Tail(streams)
      BY <1>8
    <3>3. \A r \in Seq(Token) : \A c \in Seq(Token) : \A st2 : st2 = <<c, r>> \o Tail(streams) =>
               /\ Len(st2) = Len(streams) + 1
               /\ st2[Len(st2)] = IF Len(streams) = 1 THEN r ELSE streams[Len(streams)]
      BY <3>1, Pushing
    <3>4. \A st2 : st2 = <<Content[file_name], rest>> \o Tail(streams) =>
               /\ Len(st2) = Len(streams) + 1
               /\ st2[Len(st2)] = IF Len(streams) = 1 THEN rest ELSE streams[Len(streams)]
      BY <1>2, <2>1, <3>3, Zenon
    <3> QED
      BY <3>2, <3>4, Zenon
  <2>3. Len(streams') # 1 /\ ~(Len(streams') <= 1)
    BY <1>1, <2>2
  <2>4. phase # "files"
    BY <1>3, <2>3 DEF LoadFilesLoadNothing
  <2>5. phase = "stdin" => Ended(streams'[Len(streams')])
    BY <1>7, <2>2 DEF PromptKept
  <2>6. phase = "stdin" /\ old_prompt = 1 => old_prompting' = 1
    BY <1>8 DEF PromptKept, SavedPrompting
  <2> QED
    BY <1>3, <2>3, <2>4, <2>5, <2>6 DEF PromptKept
<1>9. CASE streams' = <<rest>> \o Tail(streams) /\ UNCHANGED <<prompting, old_prompting>>
  <2>1. /\ Len(streams') = Len(streams) /\ Head(streams') = rest
        /\ streams'[Len(streams')] = IF Len(streams) = 1 THEN rest ELSE streams[Len(streams)]
    BY <1>1, <1>2, <1>9, Bottom
  <2>2. phase = "stdin" => Ended(streams'[Len(streams')])
    BY <1>7, <2>1 DEF PromptKept
  <2>3. phase = "stdin" /\ old_prompt = 1 /\ Len(streams) = 1 /\ rest = <<>> => prompted'
    <3> SUFFICES ASSUME phase = "stdin", old_prompt = 1, Len(streams) = 1, rest = <<>>
                 PROVE  prompted'
      OBVIOUS
    <3>1. t = "TK_EOL" /\ prompting' = 1
      BY <1>5, <1>7, <1>9 DEF PromptKept
    <3> QED
      BY <1>3, <3>1
  <2> QED
    BY <1>3, <1>9, <2>1, <2>2, <2>3 DEF PromptKept
<1> QED
  BY <1>4, <1>8, <1>9

\* The end of a loaded file: the last one that was loaded from the terminal
\* brings the prompt back.
LEMMA EndOfFilePrompts ==
    ASSUME InputAssumption, IInv, PromptKept, LoadFilesLoadNothing, EndOfLoadedFile
    PROVE  PromptKept'
<1>1. /\ streams \in Seq(Seq(Token)) /\ streams # <<>> /\ Head(streams) \in Seq(Token)
      /\ streams' = Tail(streams) /\ UNCHANGED <<phase, old_prompt>>
      /\ RestorePrompt /\ Len(streams) > 1
  BY DEF IInv, TypeOK, EndOfLoadedFile, Popped
<1>2. /\ Len(streams) \in Nat /\ Len(streams') = Len(streams) - 1
      /\ streams'[Len(streams')] = streams[Len(streams)]
  BY <1>1, Bottom
<1>3. phase # "files" /\ Len(streams) # 1
  BY <1>1, <1>2 DEF LoadFilesLoadNothing
<1>4. phase = "stdin" => Ended(streams'[Len(streams')])
  BY <1>2 DEF PromptKept
<1>5. phase = "stdin" /\ old_prompt = 1 => old_prompting = 1
  BY <1>3 DEF PromptKept
<1>6. Restored => prompting' = 1 /\ old_prompting' = -1 /\ prompted'
  BY <1>1 DEF RestorePrompt
<1>7. ~Restored => UNCHANGED old_prompting
  BY <1>1 DEF RestorePrompt
<1>8. phase = "stdin" /\ old_prompt = 1 => (Restored <=> Len(streams') = 1)
  <2> DEFINE n == Len(streams)
             m == Len(streams')
  <2>1. n \in Nat /\ n > 1 /\ m = n - 1
    BY <1>1, <1>2
  <2> HIDE DEF n, m
  <2>2. n <= 2 <=> m = 1
    BY <2>1
  <2>3. old_prompting = 1 => old_prompting > 0
    OBVIOUS
  <2> QED
    BY <1>5, <2>2, <2>3, Zenon DEF Restored, n, m
<1> QED
  BY <1>1, <1>3, <1>4, <1>5, <1>6, <1>7, <1>8 DEF PromptKept

\* A line typed: it ends, and the prompt before it is used up.
LEMMA TypeLinePrompts ==
    ASSUME InputAssumption, IInv, PromptKept, TypeLine
    PROVE  PromptKept'
<1>1. PICK l \in Lines : streams' = [streams EXCEPT ![Len(streams)] = @ \o l]
  BY DEF TypeLine
<1>2. /\ phase = "stdin" /\ streams \in Seq(Seq(Token)) /\ streams # <<>>
      /\ UNCHANGED <<phase, prompting, old_prompting, old_prompt, prompted>>
  BY DEF IInv, TypeOK, TypeLine, prompts
<1>3. /\ Len(streams) \in Nat \ {0} /\ Len(streams) \in DOMAIN streams
      /\ streams[Len(streams)] \in Seq(Token)
  BY <1>2
<1> DEFINE longer == streams[Len(streams)] \o l
<1>4. Ended(longer) /\ longer # <<>>
  BY <1>2, <1>3, EndedKept DEF PromptKept
<1>5. streams' = [streams EXCEPT ![Len(streams)] = longer]
  BY <1>1
<1> HIDE DEF longer
<1>6. Len(streams') = Len(streams) /\ streams'[Len(streams')] = longer
  BY <1>2, <1>3, <1>5
<1>7. Len(streams) = 1 => Head(streams') # <<>>
  BY <1>2, <1>3, <1>4, <1>5, <1>6
<1> QED
  BY <1>2, <1>4, <1>6, <1>7 DEF PromptKept

\* Every step, while the -L files load nothing.
LEMMA NextPrompts ==
    ASSUME InputAssumption, IInv, PromptKept, LoadFilesLoadNothing, LoadFilesLoadNothing',
           [Next]_vars
    PROVE  PromptKept'
<1>1. CASE ReadToken
  BY <1>1, ReadTokenPrompts
<1>2. CASE EndOfLoadedFile
  BY <1>2, EndOfFilePrompts
<1>3. CASE EndOfLoadFile
  <2>1. phase = "files" /\ phase' = "files" /\ RestorePrompt /\ old_prompting = -1
    BY <1>3 DEF EndOfLoadFile, PromptKept
  <2> QED
    BY <2>1 DEF PromptKept, RestorePrompt, Restored
<1>4. CASE NextLoadFile
  BY <1>4 DEF NextLoadFile, prompts, PromptKept
<1>5. CASE StartTerminal
  <2>1. /\ phase' = "stdin" /\ streams' = <<<<>>>> /\ prompting' = old_prompt
        /\ prompted' = (old_prompt = 1) /\ UNCHANGED <<old_prompting, old_prompt>>
        /\ old_prompting = -1
    BY <1>5 DEF StartTerminal, PromptKept
  <2>2. Len(streams') = 1 /\ streams'[1] = <<>>
    BY <2>1
  <2> QED
    BY <2>1, <2>2 DEF PromptKept, Ended
<1>6. CASE Quit
  BY <1>6 DEF Quit, PromptKept
<1>7. CASE TypeLine
  BY <1>7, TypeLinePrompts
<1>8. CASE TypeEnd \/ UNCHANGED vars
  BY <1>8 DEF TypeEnd, vars, input, prompts, PromptKept
<1> QED
  BY <1>1, <1>2, <1>3, <1>4, <1>5, <1>6, <1>7, <1>8 DEF Next, Work, Over

\* The prompt is there whenever the interpreter waits, at whatever depth files
\* were loaded and wherever in a statement they ended.
LEMMA PromptIfNothingLoaded ==
    ASSUME InputAssumption
    PROVE  Spec /\ []LoadFilesLoadNothing => []PromptWhenWaiting
<1>1. Init => PromptKept
  BY DEF Init, PromptKept
<1>2. IInv /\ PromptKept /\ LoadFilesLoadNothing /\ LoadFilesLoadNothing' /\ [Next]_vars
        => PromptKept'
  BY NextPrompts
<1>3. PromptKept => PromptWhenWaiting
  BY DEF PromptKept, PromptWhenWaiting, Waiting, AtTerminal
<1> QED
  BY <1>1, <1>2, <1>3, Invariance, PTL DEF Spec

-----------------------------------------------------------------------------
(* Files without a load command                                            *)

\* No load command in what is left of a file.
Flat(s) == \A i \in 1..Len(s) : s[i].kind # "load"

\* The files given with -L hold none.
FlatLoadFiles ==
    \A list \in LoadLists : \A i \in 1..Len(list) :
       list[i] \in Files => Flat(Content[list[i]])

\* What is still to come of the -L files holds none, and none has begun.
NoLoadBegun ==
    phase = "files" =>
       /\ Len(streams) <= 1
       /\ streams # <<>> => Flat(Head(streams))
       /\ parser \notin {"load", "named"}
       /\ \A i \in 1..Len(load_files) :
             load_files[i] \in Files => Flat(Content[load_files[i]])

\* The parser gets to a file name by a load command only.
LEMMA NoLoadWithoutCommand ==
    ASSUME parser \in DOMAIN Goto, parser \notin {"load", "named"},
           NEW token \in Token, token.kind # "load"
    PROVE  /\ Place(Terminal(token)) # "named"
           /\ Shifted(Terminal(token)) \notin {"load", "named"}
<1> DEFINE t == Terminal(token)
<1>1. t # "TK_LOAD"
  BY DEF Terminal, Word, Token, TokenKind
<1> HIDE DEF t
<1>2. Place(t) \in DOMAIN Goto \ {"load", "named"}
  BY DEF Place, Goto
<1>3. Shifted(t) \notin {"load", "named"}
  <2> DEFINE p == Place(t)
  <2>1. p \in DOMAIN Goto \ {"load", "named"}
    BY <1>2
  <2> HIDE DEF p
  <2>2. ASSUME t \in DOMAIN Goto[p] PROVE Goto[p][t] \notin {"load", "named"}
    BY <1>1, <2>1, <2>2 DEF Goto
  <2> QED
    BY <2>2 DEF p, Shifted
<1> QED
  BY <1>2, <1>3 DEF t

\* Every step, while the -L files hold no load command.
LEMMA NextBeginsNoLoad ==
    ASSUME IInv, NoLoadBegun, [Next]_vars
    PROVE  NoLoadBegun'
<1>1. CASE ReadToken
  <2> SUFFICES ASSUME phase = "files" PROVE NoLoadBegun'
    BY <1>1 DEF ReadToken, NoLoadBegun
  <2> DEFINE token == Head(Head(streams))
             rest == Tail(Head(streams))
  <2>1. /\ streams \in Seq(Seq(Token)) /\ streams # <<>> /\ Len(streams) <= 1
        /\ Head(streams) \in Seq(Token) /\ Head(streams) # <<>> /\ Flat(Head(streams))
        /\ parser \in DOMAIN Goto /\ parser \notin {"load", "named"}
    BY <1>1 DEF IInv, TypeOK, NoLoadBegun, ReadToken
  <2>2. token \in Token /\ token.kind # "load" /\ Flat(rest)
    <3> DEFINE s == Head(streams)
    <3>1. s \in Seq(Token) /\ s # <<>> /\ Flat(s)
      BY <2>1
    <3> HIDE DEF s
    <3>2. Len(s) \in Nat \ {0} /\ Head(s) = s[1] /\ Head(s) \in Token
      BY <3>1
    <3>3. Len(Tail(s)) = Len(s) - 1 /\ \A i \in 1..Len(s) - 1 : Tail(s)[i] = s[i + 1]
      BY <3>1, <3>2
    <3>4. Head(s).kind # "load"
      BY <3>1, <3>2 DEF Flat
    <3>5. Flat(Tail(s))
      BY <3>1, <3>2, <3>3 DEF Flat
    <3> QED
      BY <3>2, <3>4, <3>5 DEF s
  <2>3. /\ Place(Terminal(token)) # "named"
        /\ Shifted(Terminal(token)) \notin {"load", "named"}
    BY <2>1, <2>2, NoLoadWithoutCommand
  <2>4. /\ streams' = <<rest>> \o Tail(streams) /\ parser' = Shifted(Terminal(token))
        /\ UNCHANGED <<phase, load_files>>
    BY <1>1, <2>3 DEF ReadToken
  <2>5. rest \in Seq(Token)
    BY <2>1
  <2>6. Len(streams') = Len(streams) /\ Head(streams') = rest
    <3> HIDE DEF rest
    <3> QED
      BY <2>1, <2>4, <2>5, Bottom
  <2> QED
    BY <2>1, <2>2, <2>3, <2>4, <2>6 DEF NoLoadBegun
<1>2. CASE EndOfLoadedFile
  BY <1>2 DEF IInv, TypeOK, EndOfLoadedFile, NoLoadBegun
<1>3. CASE EndOfLoadFile
  <2>1. streams' = <<>> /\ Len(streams') <= 1 /\ parser' = "start" /\ UNCHANGED <<phase, load_files>>
    BY <1>3 DEF EndOfLoadFile
  <2> QED
    BY <2>1 DEF NoLoadBegun
<1>4. CASE NextLoadFile
  <2> DEFINE l == load_files
  <2>1. /\ l \in Seq(Names) /\ l # <<>> /\ l' = Tail(l) /\ UNCHANGED <<phase, parser>>
        /\ streams' = IF CanOpen(Head(l)) THEN <<Content[Head(l)]>> ELSE <<>>
        /\ phase = "files"
    BY <1>4 DEF IInv, TypeOK, NextLoadFile, Remaining
  <2>2. \A i \in 1..Len(l) : l[i] \in Files => Flat(Content[l[i]])
    BY <2>1 DEF NoLoadBegun
  <2>3. parser \notin {"load", "named"}
    BY <2>1 DEF NoLoadBegun
  <2>4. Len(l) \in Nat \ {0} /\ Head(l) = l[1]
    BY <2>1
  <2>5. Len(l') = Len(l) - 1 /\ \A i \in 1..Len(l) - 1 : l'[i] = l[i + 1]
    BY <2>1
  <2>6. \A i \in 1..Len(l') : l'[i] \in Files => Flat(Content[l'[i]])
    BY <2>2, <2>4, <2>5
  <2>7. CanOpen(Head(l)) => Flat(Content[Head(l)])
    BY <2>2, <2>4 DEF CanOpen
  <2>8. Len(streams') <= 1 /\ (streams' # <<>> => Flat(Head(streams')))
    BY <2>1, <2>7
  <2> QED
    BY <2>1, <2>3, <2>6, <2>8 DEF NoLoadBegun
<1>5. CASE StartTerminal
  BY <1>5 DEF StartTerminal, NoLoadBegun
<1>6. CASE Quit
  BY <1>6 DEF Quit, NoLoadBegun
<1>7. CASE TypeLine
  BY <1>7 DEF TypeLine, NoLoadBegun
<1>8. CASE TypeEnd \/ UNCHANGED vars
  BY <1>8 DEF TypeEnd, vars, input, NoLoadBegun
<1> QED
  BY <1>1, <1>2, <1>3, <1>4, <1>5, <1>6, <1>7, <1>8 DEF Next, Work, Over

\* As long as no -L file holds a load command, the prompt is there whenever
\* the interpreter waits for a statement, at whatever depth files were loaded
\* from the terminal and wherever in a statement they ended.
THEOREM PromptComesBack ==
    ASSUME InputAssumption, FlatLoadFiles
    PROVE  Spec => []PromptWhenWaiting
<1>1. Init => NoLoadBegun
  <2> SUFFICES ASSUME Init PROVE NoLoadBegun
    OBVIOUS
  <2>1. /\ streams = <<>> /\ Len(streams) <= 1 /\ parser = "start"
        /\ load_files \in LoadLists
    BY DEF Init
  <2> QED
    BY <2>1 DEF FlatLoadFiles, NoLoadBegun
<1>2. IInv /\ NoLoadBegun /\ [Next]_vars => NoLoadBegun'
  BY NextBeginsNoLoad
<1>3. NoLoadBegun => LoadFilesLoadNothing
  BY DEF NoLoadBegun, LoadFilesLoadNothing
<1> QED
  BY <1>1, <1>2, <1>3, Invariance, PromptIfNothingLoaded, PTL DEF Spec

-----------------------------------------------------------------------------
(* One text                                                                *)

\* Among some numbers one is the least.
LEMMA LeastNumber ==
    ASSUME NEW S \in SUBSET Nat, S # {}
    PROVE  \E m \in S : \A k \in S : m <= k
<1> DEFINE R == OpToRel(<, Nat)
<1>1. PICK m \in S : \A k \in S : ~(<<k, m>> \in R)
  BY NatLessThanWellFounded, WFMin
<1>2. ASSUME NEW k \in S PROVE m <= k
  <2>1. k \in Nat /\ m \in Nat /\ <<k, m>> \in Nat \X Nat
    OBVIOUS
  <2>2. k < m => <<k, m>> \in R
    BY <2>1 DEF OpToRel
  <2> HIDE DEF R
  <2>3. ~(k < m)
    BY <1>1, <2>2
  <2> QED
    BY <2>1, <2>3
<1> QED
  BY <1>2

\* What the lemmas below need of a set of texts.
Texts(S) ==
    /\ <<>> \in S
    /\ \A a, b \in S : a \o b \in S
    /\ \A a \in S : a \o <<>> = a /\ <<>> \o a = a
    /\ \A a, b, c \in S : (a \o b) \o c = a \o (b \o c)

\* Sequences are such a set.
LEMMA SequencesAreTexts == \A T : Texts(Seq(T))
<1> TAKE T
<1>1. \A a, b \in Seq(T) : a \o b \in Seq(T)
  OBVIOUS
<1>2. \A a \in Seq(T) : a \o <<>> = a /\ <<>> \o a = a
  BY ConcatEmptySeq
<1>3. \A a, b, c \in Seq(T) : (a \o b) \o c = a \o (b \o c)
  OBVIOUS
<1> QED
  BY <1>1, <1>2, <1>3 DEF Texts

\* f[i] is the text of the streams 1 to i.
BuiltUp(st, f) ==
    /\ f[1] = st[1]
    /\ \A i \in 2..Len(st) : f[i] = f[i - 1] \o st[i]

\* The text of a stack of streams is built up stream by stream.
LEMMA FlattenSteps ==
    ASSUME NEW S, Texts(S), NEW st \in Seq(S), st # <<>>
    PROVE  \E f \in [1..Len(st) -> S] : BuiltUp(st, f) /\ FlattenSeq(st) = f[Len(st)]
<1> DEFINE D == 1..Len(st)
           Step(g, i) == IF i = 1 THEN st[i] ELSE g[i - 1] \o st[i]
           Solved(n) == \E g \in [1..n -> S] : \A i \in 1..n : g[i] = Step(g, i)
           flatten == CHOOSE g : g = [i \in 1..Len(st) |-> IF i = 1 THEN st[i] ELSE g[i - 1] \o st[i]]
<1>1. Len(st) \in Nat /\ Len(st) >= 1 /\ \A i \in D : st[i] \in S
  OBVIOUS
<1>2. FlattenSeq(st) = flatten[Len(st)]
  BY <1>1 DEF FlattenSeq
<1>3. \A n \in D : Solved(n)
  <2> DEFINE Open == {n \in D : ~Solved(n)}
  <2> SUFFICES ASSUME Open # {} PROVE FALSE
    OBVIOUS
  <2>1. PICK n \in Open : \A k \in Open : n <= k
    <3> Open \in SUBSET Nat
      OBVIOUS
    <3> HIDE DEF Open
    <3> QED
      BY LeastNumber
  <2>2. n \in D /\ ~Solved(n)
    OBVIOUS
  <2>3. CASE n = 1
    <3> DEFINE g == [i \in 1..1 |-> st[1]]
    <3>1. g \in [1..1 -> S]
      BY <1>1
    <3>2. \A i \in 1..1 : g[i] = Step(g, i)
      OBVIOUS
    <3> QED
      BY <2>2, <2>3, <3>1, <3>2
  <2>4. CASE n # 1
    <3>1. n - 1 \in D /\ n \in Nat
      BY <1>1, <2>2, <2>4
    <3>2. Solved(n - 1)
      <4> HIDE DEF Solved
      <4> QED
        BY <2>1, <3>1
    <3>3. PICK h \in [1..(n - 1) -> S] : \A i \in 1..(n - 1) : h[i] = Step(h, i)
      BY <3>2
    <3> DEFINE g == [i \in 1..n |-> IF i = n THEN h[n - 1] \o st[n] ELSE h[i]]
    <3>4. h[n - 1] \o st[n] \in S
      <4>1. h[n - 1] \in S /\ st[n] \in S
        BY <1>1, <2>2, <2>4, <3>1, <3>3
      <4> QED
        BY <4>1 DEF Texts
    <3>5. g \in [1..n -> S]
      BY <3>1, <3>3, <3>4
    <3>6. ASSUME NEW i \in 1..n PROVE g[i] = Step(g, i)
      <4>1. CASE i = n
        <5>1. n \in 1..n /\ n - 1 \in 1..n /\ n - 1 # n
          BY <2>4, <3>1, <4>1
        <5>2. g[n] = h[n - 1] \o st[n] /\ g[n - 1] = h[n - 1]
          BY <5>1
        <5> HIDE DEF g
        <5> QED
          BY <2>4, <4>1, <5>2
      <4>2. CASE i # n
        <5>1. i \in 1..(n - 1) /\ g[i] = h[i]
          BY <3>1, <4>2
        <5>2. i # 1 => g[i - 1] = h[i - 1]
          BY <3>1, <4>2
        <5> HIDE DEF g
        <5> QED
          BY <3>3, <5>1, <5>2
      <4> QED
        BY <4>1, <4>2
    <3> HIDE DEF g, Step
    <3> QED
      BY <2>2, <3>5, <3>6
  <2> QED
    BY <2>3, <2>4
<1>4. PICK g \in [D -> S] : \A i \in D : g[i] = Step(g, i)
  <2>1. Len(st) \in D
    BY <1>1
  <2>2. Solved(Len(st))
    <3> HIDE DEF Solved
    <3> QED
      BY <1>3, <2>1
  <2> QED
    BY <2>2
<1>5. g = [i \in D |-> IF i = 1 THEN st[i] ELSE g[i - 1] \o st[i]]
  BY <1>4
<1>6. flatten = [i \in D |-> IF i = 1 THEN st[i] ELSE flatten[i - 1] \o st[i]]
  BY <1>5
<1>7. \A i \in D : flatten[i] = IF i = 1 THEN st[i] ELSE flatten[i - 1] \o st[i]
  <2> HIDE DEF flatten
  <2> QED
    BY <1>6
<1> HIDE DEF flatten
<1>8. flatten \in [D -> S]
  <2> DEFINE Bad == {n \in D : flatten[n] \notin S}
  <2> SUFFICES ASSUME Bad # {} PROVE FALSE
    BY <1>6
  <2>1. PICK n \in Bad : \A k \in Bad : n <= k
    <3> Bad \in SUBSET Nat
      OBVIOUS
    <3> HIDE DEF Bad
    <3> QED
      BY LeastNumber
  <2>2. n \in D /\ flatten[n] \notin S
    OBVIOUS
  <2>3. n # 1
    BY <1>1, <1>7, <2>2
  <2>4. n - 1 \in D /\ flatten[n - 1] \in S
    BY <1>1, <2>1, <2>2, <2>3
  <2>5. flatten[n] = flatten[n - 1] \o st[n] /\ st[n] \in S
    BY <1>1, <1>7, <2>2, <2>3
  <2> HIDE DEF Bad
  <2> QED
    BY <2>2, <2>4, <2>5 DEF Texts
<1>9. BuiltUp(st, flatten)
  <2>1. 1 \in D /\ \A i \in 2..Len(st) : i \in D /\ i # 1
    BY <1>1
  <2> QED
    BY <1>7, <2>1 DEF BuiltUp
<1> QED
  BY <1>2, <1>8, <1>9

\* What is left to be read is a sequence of tokens,
LEMMA FlattenType ==
    ASSUME NEW S, Texts(S), NEW st \in Seq(S)
    PROVE  FlattenSeq(st) \in S
<1>1. CASE st = <<>>
  BY <1>1 DEF FlattenSeq, Texts
<1>2. CASE st # <<>>
  <2>1. Len(st) \in 1..Len(st)
    BY <1>2
  <2>2. PICK f \in [1..Len(st) -> S] : FlattenSeq(st) = f[Len(st)]
    BY <1>2, FlattenSteps
  <2> QED
    BY <2>1, <2>2
<1> QED
  BY <1>1, <1>2

\* which begins with the stream on top,
LEMMA FlattenTop ==
    ASSUME NEW S, Texts(S), NEW x \in S, NEW st \in Seq(S)
    PROVE  FlattenSeq(<<x>> \o st) = x \o FlattenSeq(st)
<1> DEFINE more == <<x>> \o st
<1>1. /\ more \in Seq(S) /\ more # <<>>
      /\ Len(more) = Len(st) + 1 /\ Len(st) \in Nat
      /\ more[1] = x
      /\ \A i \in 1..Len(st) : more[i + 1] = st[i] /\ st[i] \in S
  OBVIOUS
<1> HIDE DEF more
<1>2. PICK f \in [1..Len(more) -> S] : BuiltUp(more, f) /\ FlattenSeq(more) = f[Len(more)]
  BY <1>1, FlattenSteps
<1>3. CASE st = <<>>
  <2>1. FlattenSeq(st) = <<>> /\ x \o <<>> = x
    BY <1>3 DEF FlattenSeq, Texts
  <2>2. f[1] = x /\ Len(more) = 1
    BY <1>1, <1>2, <1>3 DEF BuiltUp
  <2> QED
    BY <1>2, <2>1, <2>2 DEF more
<1>4. CASE st # <<>>
  <2>1. PICK g \in [1..Len(st) -> S] : BuiltUp(st, g) /\ FlattenSeq(st) = g[Len(st)]
    BY <1>4, FlattenSteps
  <2> DEFINE Bad == {i \in 1..Len(st) : f[i + 1] # x \o g[i]}
  <2>2. Bad = {}
    <3> SUFFICES ASSUME Bad # {} PROVE FALSE
      OBVIOUS
    <3>1. PICK n \in Bad : \A k \in Bad : n <= k
      <4> Bad \in SUBSET Nat
        OBVIOUS
      <4> HIDE DEF Bad
      <4> QED
        BY LeastNumber
    <3>2. n \in 1..Len(st) /\ f[n + 1] # x \o g[n]
      OBVIOUS
    <3>3. n + 1 \in 2..Len(more) /\ (n + 1) - 1 = n
      BY <1>1, <3>2
    <3>4. f[n + 1] = f[n] \o st[n]
      BY <1>1, <1>2, <3>2, <3>3 DEF BuiltUp
    <3>5. CASE n = 1
      BY <1>1, <1>2, <2>1, <3>2, <3>4, <3>5 DEF BuiltUp
    <3>6. CASE n # 1
      <4>1. n - 1 \in 1..Len(st) /\ n \in 2..Len(st) /\ (n - 1) + 1 = n
        BY <1>1, <3>2, <3>6
      <4>2. f[n] = x \o g[n - 1]
        <5>1. n - 1 \notin Bad
          <6> HIDE DEF Bad
          <6> QED
            BY <3>1, <3>2, <4>1
        <5> QED
          BY <4>1, <5>1
      <4>3. g[n] = g[n - 1] \o st[n]
        BY <2>1, <4>1 DEF BuiltUp
      <4>4. g[n - 1] \in S /\ st[n] \in S
        BY <1>1, <3>2, <4>1
      <4>5. x \o (g[n - 1] \o st[n]) = (x \o g[n - 1]) \o st[n]
        <5> DEFINE a == g[n - 1]
                   b == st[n]
        <5>1. a \in S /\ b \in S
          BY <4>4
        <5> HIDE DEF a, b
        <5>2. x \o (a \o b) = (x \o a) \o b
          BY <5>1 DEF Texts
        <5> QED
          BY <5>2 DEF a, b
      <4> QED
        BY <3>2, <3>4, <4>2, <4>3, <4>5
    <3> QED
      BY <3>5, <3>6
  <2>3. Len(st) \in 1..Len(st)
    BY <1>1, <1>4
  <2> QED
    BY <1>1, <1>2, <2>1, <2>2, <2>3 DEF more
<1> QED
  BY <1>3, <1>4

\* and ends with the one at the bottom.
LEMMA FlattenBottom ==
    ASSUME NEW S, Texts(S), NEW st \in Seq(S), st # <<>>, NEW l \in S
    PROVE  FlattenSeq([st EXCEPT ![Len(st)] = @ \o l]) = FlattenSeq(st) \o l
<1> DEFINE more == [st EXCEPT ![Len(st)] = @ \o l]
<1>1. Len(st) \in 1..Len(st) /\ \A i \in 1..Len(st) : st[i] \in S
  OBVIOUS
<1> Len(st) \in Nat /\ Len(st) >= 1
  OBVIOUS
<1>2. st[Len(st)] \o l \in S
  BY <1>1 DEF Texts
<1>3. /\ more \in Seq(S) /\ Len(more) = Len(st) /\ more # <<>>
      /\ more[Len(st)] = st[Len(st)] \o l
      /\ \A i \in 1..Len(st) : i # Len(st) => more[i] = st[i]
  BY <1>1, <1>2
<1> HIDE DEF more
<1>4. PICK f \in [1..Len(more) -> S] : BuiltUp(more, f) /\ FlattenSeq(more) = f[Len(more)]
  BY <1>3, FlattenSteps
<1>5. PICK g \in [1..Len(st) -> S] : BuiltUp(st, g) /\ FlattenSeq(st) = g[Len(st)]
  BY FlattenSteps
<1>6. CASE Len(st) = 1
  BY <1>3, <1>4, <1>5, <1>6 DEF BuiltUp, more
<1>7. CASE Len(st) # 1
  <2> DEFINE Bad == {i \in 1..(Len(st) - 1) : f[i] # g[i]}
  <2>1. Bad = {}
    <3> SUFFICES ASSUME Bad # {} PROVE FALSE
      OBVIOUS
    <3>1. PICK n \in Bad : \A k \in Bad : n <= k
      <4> Bad \in SUBSET Nat
        BY <1>1
      <4> HIDE DEF Bad
      <4> QED
        BY LeastNumber
    <3>2. n \in 1..(Len(st) - 1) /\ f[n] # g[n]
      OBVIOUS
    <3>3. n \in 1..Len(st) /\ n # Len(st) /\ more[n] = st[n]
      BY <1>1, <1>3, <3>2
    <3>4. n # 1
      BY <1>4, <1>5, <3>2, <3>3 DEF BuiltUp
    <3>5. n - 1 \in 1..(Len(st) - 1) /\ n \in 2..Len(st)
      BY <1>1, <3>2, <3>4
    <3>6. f[n - 1] = g[n - 1]
      <4>1. n - 1 \notin Bad
        <5> HIDE DEF Bad
        <5> QED
          BY <3>1, <3>2, <3>5
      <4> QED
        BY <3>5, <4>1
    <3>7. f[n] = f[n - 1] \o more[n] /\ g[n] = g[n - 1] \o st[n]
      BY <1>3, <1>4, <1>5, <3>5 DEF BuiltUp
    <3> QED
      BY <3>2, <3>3, <3>6, <3>7
  <2>2. /\ Len(st) - 1 \in 1..(Len(st) - 1) /\ Len(st) \in 2..Len(st)
        /\ Len(st) - 1 \in 1..Len(st)
    <3> DEFINE n == Len(st)
    <3>1. n \in Nat /\ n >= 1 /\ n # 1
      BY <1>7
    <3> HIDE DEF n
    <3>2. n - 1 \in 1..(n - 1) /\ n \in 2..n /\ n - 1 \in 1..n
      BY <3>1
    <3> QED
      BY <3>2 DEF n
  <2>3. f[Len(st) - 1] = g[Len(st) - 1]
    BY <2>1, <2>2
  <2>4. /\ f[Len(st)] = f[Len(st) - 1] \o more[Len(st)]
        /\ g[Len(st)] = g[Len(st) - 1] \o st[Len(st)]
    BY <1>3, <1>4, <1>5, <2>2 DEF BuiltUp
  <2>5. g[Len(st) - 1] \in S /\ st[Len(st)] \in S
    BY <1>1, <2>2
  <2>6. (g[Len(st) - 1] \o st[Len(st)]) \o l = g[Len(st) - 1] \o (st[Len(st)] \o l)
    <3> DEFINE a == g[Len(st) - 1]
               b == st[Len(st)]
    <3>1. a \in S /\ b \in S
      BY <2>5
    <3> HIDE DEF a, b
    <3>2. (a \o b) \o l = a \o (b \o l)
      BY <3>1, SMTT(60) DEF Texts
    <3> QED
      BY <3>2 DEF a, b
  <2> QED
    BY <1>3, <1>4, <1>5, <2>3, <2>4, <2>6 DEF more
<1> QED
  BY <1>6, <1>7


\* A token that is read is the first of the text, and a file that is opened goes
\* before the rest of it.
LEMMA ReadTokenReads ==
    ASSUME InputAssumption, TypeOK, ReadToken
    PROVE  Text!Read
<1> DEFINE rest == Tail(Head(streams))
<1>1. streams \in Seq(Seq(Token)) /\ streams # <<>> /\ Head(streams) # <<>>
  BY DEF ReadToken, TypeOK
<1>2. /\ Head(streams) \in Seq(Token) /\ rest \in Seq(Token)
      /\ Tail(streams) \in Seq(Seq(Token))
      /\ Head(streams) = <<Head(Head(streams))>> \o rest
      /\ streams = <<Head(streams)>> \o Tail(streams)
  BY <1>1, HeadTailProperties
<1> DEFINE below == FlattenSeq(Tail(streams))
           token == Head(Head(streams))
<1>3. below \in Seq(Token) /\ FlattenSeq(streams) = Head(streams) \o below
  BY <1>2, SequencesAreTexts, FlattenType, FlattenTop, Zenon
<1>4. token \in Token /\ <<token>> \in Seq(Token)
  BY <1>1
<1>5. FlattenSeq(streams) = <<token>> \o (rest \o below)
  <2> DEFINE S == Seq(Token)
             first == <<token>>
  <2>1. first \in S /\ rest \in S /\ below \in S
    BY <1>2, <1>3, <1>4
  <2>2. Texts(S)
    BY SequencesAreTexts
  <2>3. FlattenSeq(streams) = (first \o rest) \o below
    BY <1>2, <1>3, Zenon
  <2> HIDE DEF S, first, rest, below
  <2>4. (first \o rest) \o below = first \o (rest \o below)
    BY <2>1, <2>2 DEF Texts
  <2> QED
    BY <2>3, <2>4 DEF first
<1>6. rest \o below \in Seq(Token)
  BY <1>2, <1>3, ConcatProperties
<1>7. /\ FlattenSeq(streams) # <<>> /\ Head(FlattenSeq(streams)) = token
      /\ Tail(FlattenSeq(streams)) = rest \o below
  <2> DEFINE text == rest \o below
  <2> HIDE DEF text, token
  <2>1. <<token>> \o text # <<>> /\ Head(<<token>> \o text) = token /\ Tail(<<token>> \o text) = text
    BY <1>4, <1>6 DEF text
  <2> QED
    BY <1>5, <2>1 DEF text
<1>8. latest' = token
  BY DEF ReadToken
<1>9. FlattenSeq(<<rest>> \o Tail(streams)) = rest \o below
  BY <1>2, SequencesAreTexts, FlattenTop, Zenon
<1>10. CASE streams' = <<rest>> \o Tail(streams)
  BY <1>7, <1>8, <1>9, <1>10 DEF Text!Read
<1>11. CASE CanOpen(file_name) /\ streams' = Pushed(file_name, rest)
  <2>1. file_name \in Files /\ Content[file_name] \in Seq(Token)
    BY <1>11 DEF CanOpen, InputAssumption
  <2> DEFINE c == Content[file_name]
  <2>2. streams' = <<c>> \o (<<rest>> \o Tail(streams))
    <3> DEFINE S == Seq(Seq(Token))
               opened == <<c>>
               left == <<rest>>
               under == Tail(streams)
    <3>1. streams' = <<c, rest>> \o under
      BY <1>11 DEF Pushed
    <3>2. opened \in S /\ left \in S /\ under \in S
      BY <1>2, <2>1
    <3>3. Texts(S)
      BY SequencesAreTexts
    <3> HIDE DEF c, rest
    <3>4. <<c, rest>> = opened \o left
      OBVIOUS
    <3> HIDE DEF S, opened, left, under
    <3>5. (opened \o left) \o under = opened \o (left \o under)
      BY <3>2, <3>3 DEF Texts
    <3>6. streams' = opened \o (left \o under)
      BY <3>1, <3>4, <3>5
    <3> QED
      BY <3>6 DEF opened, left, under
  <2>3. <<rest>> \o Tail(streams) \in Seq(Seq(Token))
    BY <1>2, TopReplaced, <1>1
  <2>4. FlattenSeq(streams') = c \o (rest \o below)
    BY <1>9, <2>1, <2>2, <2>3, SequencesAreTexts, FlattenTop, Zenon
  <2> QED
    BY <1>7, <1>8, <2>1, <2>4 DEF Text!Read
<1> QED
  BY <1>10, <1>11 DEF ReadToken, push_and_open

\* A stream at its end holds nothing of the text.
LEMMA EndsAreSilent ==
    ASSUME TypeOK, EndOfLoadedFile \/ EndOfLoadFile \/ StartTerminal \/ Quit
    PROVE  UNCHANGED <<FlattenSeq(streams), latest>>
<1>1. streams \in Seq(Seq(Token))
  BY DEF TypeOK
<1>2. <<>> \in Seq(Token) /\ <<>> \in Seq(Seq(Token)) /\ <<>> \o <<>> = <<>>
  OBVIOUS
<1>3. FlattenSeq(<<>>) = <<>>
  BY DEF FlattenSeq
<1>4. FlattenSeq(<<<<>>>>) = <<>>
  <2>1. FlattenSeq(<<<<>>>> \o <<>>) = <<>> \o FlattenSeq(<<>>)
    BY <1>2, SequencesAreTexts, FlattenTop, Zenon
  <2>2. <<<<>>>> \o <<>> = <<<<>>>>
    OBVIOUS
  <2> QED
    BY <1>2, <1>3, <2>1, <2>2
<1>5. ASSUME EndOfLoadedFile
      PROVE  FlattenSeq(streams') = FlattenSeq(streams)
  <2>1. /\ Tail(streams) \in Seq(Seq(Token))
        /\ streams = <<<<>>>> \o Tail(streams)
        /\ streams' = Tail(streams)
    <3>1. streams # <<>> /\ Head(streams) = <<>> /\ streams' = Tail(streams)
      BY <1>1, <1>5 DEF EndOfLoadedFile, Popped
    <3> QED
      BY <1>1, <3>1, HeadTailProperties
  <2>2. FlattenSeq(streams) = <<>> \o FlattenSeq(Tail(streams))
    BY <1>2, <2>1, SequencesAreTexts, FlattenTop, Zenon
  <2>3. FlattenSeq(Tail(streams)) \in Seq(Token)
    BY <2>1, SequencesAreTexts, FlattenType, Zenon
  <2> QED
    BY <2>1, <2>2, <2>3, ConcatEmptySeq
<1>6. ASSUME EndOfLoadFile \/ StartTerminal \/ Quit
      PROVE  FlattenSeq(streams') = FlattenSeq(streams)
  <2>1. Quit => streams = <<<<>>>>
    BY <1>1 DEF Quit, AtTerminal
  <2>2. streams \in {<<>>, <<<<>>>>} /\ streams' \in {<<>>, <<<<>>>>}
    BY <1>6, <2>1 DEF EndOfLoadFile, StartTerminal, Quit
  <2> QED
    BY <1>3, <1>4, <2>2, Zenon
<1>7. latest' = latest
  BY DEF EndOfLoadedFile, Popped, EndOfLoadFile, StartTerminal, Quit
<1> QED
  BY <1>5, <1>6, <1>7

\* Typing adds to the end of the text, and opening a -L file begins one.
LEMMA TextGrows ==
    ASSUME InputAssumption, TypeOK, NextLoadFile \/ TypeLine
    PROVE  Text!Type \/ Text!Open \/ UNCHANGED <<FlattenSeq(streams), latest>>
<1>1. CASE TypeLine
  <2>1. streams \in Seq(Seq(Token)) /\ streams # <<>> /\ latest' = latest
    BY <1>1 DEF TypeOK, TypeLine
  <2>2. PICK l \in Lines : streams' = [streams EXCEPT ![Len(streams)] = @ \o l]
    BY <1>1 DEF TypeLine
  <2>3. l \in Seq(Token)
    BY DEF InputAssumption
  <2>4. FlattenSeq(streams') = FlattenSeq(streams) \o l
    BY <2>1, <2>2, <2>3, SequencesAreTexts, FlattenBottom, Zenon
  <2> QED
    BY <2>1, <2>4 DEF Text!Type
<1>2. CASE NextLoadFile
  <2>1. streams = <<>> /\ latest' = latest
    BY <1>2 DEF NextLoadFile
  <2>2. CASE CanOpen(Head(load_files))
    <3> DEFINE c == Content[Head(load_files)]
    <3>1. Head(load_files) \in Files /\ c \in Seq(Token) /\ streams' = <<c>>
      BY <1>2, <2>2 DEF CanOpen, InputAssumption, NextLoadFile
    <3>2. <<c>> = <<c>> \o <<>> /\ c \o <<>> = c /\ <<>> \in Seq(Seq(Token))
      BY <3>1
    <3>3. FlattenSeq(<<>>) = <<>>
      BY DEF FlattenSeq
    <3>4. FlattenSeq(streams') = c
      BY <3>1, <3>2, <3>3, SequencesAreTexts, FlattenTop, Zenon
    <3> QED
      BY <2>1, <3>1, <3>3, <3>4 DEF Text!Open
  <2>3. CASE ~CanOpen(Head(load_files))
    BY <1>2, <2>1, <2>3 DEF NextLoadFile
  <2> QED
    BY <2>2, <2>3
<1> QED
  BY <1>1, <1>2

\* The program reads one text: each token is the next of it, a file's contents
\* stand where the command that loads it ended, and nothing is read twice, lost
\* or out of order.
THEOREM OneTextIsRead ==
    ASSUME InputAssumption
    PROVE  Spec => ImplementsOneText
<1>1. Init => Text!Init
  BY DEF Init, Text!Init, FlattenSeq
<1>2. TypeOK /\ [Next]_vars => [Text!Next]_(Text!vars)
  <2> SUFFICES ASSUME TypeOK, [Next]_vars
               PROVE  Text!Next \/ UNCHANGED <<FlattenSeq(streams), latest>>
    BY DEF Text!vars
  <2>1. CASE ReadToken
    BY <2>1, ReadTokenReads DEF Text!Next
  <2>2. CASE EndOfLoadedFile \/ EndOfLoadFile \/ StartTerminal \/ Quit
    BY <2>2, EndsAreSilent
  <2>3. CASE NextLoadFile \/ TypeLine
    BY <2>3, TextGrows DEF Text!Next
  <2>4. CASE TypeEnd \/ Over \/ UNCHANGED vars
    BY <2>4 DEF TypeEnd, Over, vars, input
  <2> QED
    BY <2>1, <2>2, <2>3, <2>4 DEF Next, Work
<1> QED
  BY <1>1, <1>2, TypeCorrectness, PTL DEF Spec, Text!Spec, ImplementsOneText

=============================================================================
