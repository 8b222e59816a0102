----------------------------- MODULE ArgParser ------------------------------
(***************************************************************************)
(* The argument parser (lib/util/arg.cc) of the test drivers: arguments    *)
(* are added with a name or two, a type and a variable; then the command   *)
(* line is read word by word and the variables are written.  A problem     *)
(* ends the process with an exit code.                                     *)
(*                                                                         *)
(* A name is its leading dashes and the rest of it: <<dashes, rest>>.  A   *)
(* word of the command line is such a name too, with the number strtol()   *)
(* or strtof() reads at its beginning, NoNumber if there is none.          *)
(***************************************************************************)
EXTENDS Integers, Sequences, FiniteSets, SequencesExt, FiniteSetsExt

CONSTANTS Declarations, \* the arguments a program may add
          Words,        \* the words of a command line: [name, number]
          Variables,    \* the program's variables
          NoNumber, NoName, NoVariable,
          Untouched,    \* the value of a variable before anything is written to it
          MaxAdded,     \* bound on the arguments added
          MaxWords      \* bound on the words of a command line

VARIABLES arguments,  \* the argument_infos
          nreq,       \* nreq_remaining
          line,       \* the words read so far
          cur,        \* index of the argument whose value is expected, 0 for none
          value,      \* the variables, Untouched or what was written
          exit        \* "running", "parsed" or the way the process ended

argVars == <<arguments, nreq, line, cur, value, exit>>

Types == {"Int", "String", "Float", "Set", "Help"}
Argument(short, long, required, type, var, size) ==
    [short |-> short, long |-> long, required |-> required, type |-> type, var |-> var,
     size |-> size, found |-> FALSE]

----------------------------------------------------------------------------
\* preprocess_argument(): one or two dashes and something behind them; a long name
\* is of letters, digits and single dashes.
check_var(a) == a.type = "Help" \/ (a.var # NoVariable /\ a.size \in {1, 2, 4, 8})
drop_leading_dashes(name) == name[1] \in 1 .. 2 /\ name[2] # ""
check_argument(name) == name[2] \notin {"two--dashes", "under_score"}
Preprocess(a) ==
    CASE ~check_var(a) -> "ERROR_BAD_VARIABLE"
      [] check_var(a) /\ a.type \notin Types -> "ERROR_UNKOWN_TYPE"
      [] check_var(a) /\ a.type \in Types ->
           IF /\ a.long # NoName => drop_leading_dashes(a.long) /\ check_argument(a.long)
              /\ drop_leading_dashes(a.short)
           THEN "SUCCESS_PARSE" ELSE "ERROR_BAD_ARGUMENT"

\* verify_unique(): the first argument that shares the variable or a name decides.
NamesOf(a) == {a.short, a.long} \ {NoName}
SameNames(a, b) == NamesOf(a) \cap NamesOf(b) # {}
VerifyUnique(a) ==
    LET clashes == {i \in DOMAIN arguments :
                       arguments[i].var = a.var \/ SameNames(arguments[i], a)}
    IN IF clashes = {} THEN "SUCCESS_PARSE"
       ELSE IF arguments[Min(clashes)].var = a.var THEN "ERROR_DUPLICATE_VARIABLE"
       ELSE "ERROR_DUPLICATE_ARGUMENT"

\* The ways out of the process.
exit_error(error) == exit' = error
exit_usage_error == exit' = "ERROR_PARSING_CMDLINE"
exit_missing_error == exit' = "ERROR_PARSING_CMDLINE"
exit_usage_success == exit' = "SUCCESS_PARSE"

add_argument(a) ==
    LET res == IF Preprocess(a) # "SUCCESS_PARSE" THEN Preprocess(a) ELSE VerifyUnique(a)
    IN /\ exit = "running" /\ line = <<>>
       /\ Len(arguments) < MaxAdded + 2
       /\ IF res # "SUCCESS_PARSE"
          THEN exit_error(res) /\ UNCHANGED <<arguments, nreq>>
          ELSE /\ arguments' = Append(arguments, a)
               /\ nreq' = nreq + (IF a.required THEN 1 ELSE 0)
               /\ UNCHANGED exit
       /\ UNCHANGED <<line, cur, value>>

----------------------------------------------------------------------------
\* parse_arguments(): a word that is the value of the argument before it.  memcpy()
\* keeps the lowest bytes of an integer; a floating point variable has 4 or 8 bytes.
Truncated(n, size) == IF size < 4 THEN n % 2 ^ (8 * size) ELSE n
Written(a, w) ==
    CASE a.type = "Int" -> Truncated(w.number, a.size)
      [] a.type = "Float" -> w.number
      [] a.type = "String" -> w.name
ParseValue(w) ==
    LET a == arguments[cur]
        bad == \/ a.type \in {"Int", "Float"} /\ w.number = NoNumber
               \/ a.type = "Float" /\ a.size \notin {4, 8}
    IN /\ exit = "running" /\ cur # 0
       /\ IF bad THEN exit_usage_error /\ UNCHANGED value
          ELSE value' = [value EXCEPT ![a.var] = Written(a, w)] /\ UNCHANGED exit
       /\ cur' = 0
       /\ line' = Append(line, w)
       /\ UNCHANGED <<arguments, nreq>>

\* find_ai_ptr(): the first argument with that name.
find_ai_ptr(name) == {i \in DOMAIN arguments : name \in NamesOf(arguments[i])}

\* A word that must be an argument.  Mutant: a second time counts again.
RefusesNot(i) == arguments[i].var = NoVariable /\ arguments[i].type # "Help"
Refuses(i) ==
    arguments[i].found \/ (arguments[i].var = NoVariable /\ arguments[i].type # "Help")
ParseName(w) ==
    LET i == Min(find_ai_ptr(w.name))
        a == arguments[i]
    IN /\ exit = "running" /\ cur = 0
       /\ line' = Append(line, w)
       /\ IF find_ai_ptr(w.name) = {} \/ Refuses(i)
          THEN exit_usage_error /\ UNCHANGED <<arguments, nreq, cur, value>>
          ELSE /\ arguments' = [arguments EXCEPT ![i].found = TRUE]
               /\ nreq' = nreq - (IF a.required THEN 1 ELSE 0)
               /\ cur' = IF a.type \in {"Int", "String", "Float"} THEN i ELSE 0
               /\ value' = IF a.type = "Set" THEN [value EXCEPT ![a.var] = 1] ELSE value
               /\ IF a.type = "Help" THEN exit_usage_success ELSE UNCHANGED exit

\* The end of the command line.  Without a last value the process ends with an error
\* whose message has a conversion and no argument for it: it may crash as well.
EndOfLine ==
    /\ exit = "running"
    /\ \/ cur # 0 /\ (exit_usage_error \/ exit' = "crash")
       \/ cur = 0 /\ nreq # 0 /\ exit_missing_error
       \/ cur = 0 /\ nreq = 0 /\ exit' = "parsed"
    /\ UNCHANGED <<arguments, nreq, line, cur, value>>

\* argument_parser(): -h and -v are always there.
verbose == "verbose"
Builtin == <<Argument(<<1, "h">>, <<2, "help">>, FALSE, "Help", NoVariable, 0),
             Argument(<<1, "v">>, <<2, "verbose">>, FALSE, "Int", verbose, 4)>>
ArgInit ==
    /\ arguments = Builtin
    /\ nreq = 0 /\ line = <<>> /\ cur = 0 /\ exit = "running"
    /\ value = [x \in Variables \cup {verbose} |-> Untouched]

ArgNext ==
    \/ \E a \in Declarations : add_argument(a)
    \/ \E w \in Words : Len(line) < MaxWords /\ (ParseValue(w) \/ ParseName(w))
    \/ EndOfLine

----------------------------------------------------------------------------
\* No word can mean two arguments and no variable belongs to two of them, whichever
\* of the names of an argument are long or short.
Unambiguous ==
    \A i, j \in DOMAIN arguments : i # j =>
        /\ NamesOf(arguments[i]) \cap NamesOf(arguments[j]) = {}
        /\ arguments[i].var # arguments[j].var

\* A parse that returns has found every required argument, has written to every
\* variable what the command line says, as much of it as the variable holds, and has
\* left the others alone; nreq_remaining (unsigned) never wraps on the way.  Which
\* words are names is said by a grammar of its own: every word that does not follow
\* the name of an argument with a value.
ParsedWhole ==
    LET takes(w) == \E i \in find_ai_ptr(w.name) : arguments[i].type \notin {"Set", "Help"}
        isName[k \in DOMAIN line] == k = 1 \/ ~(isName[k - 1] /\ takes(line[k - 1]))
        at(a) == {k \in DOMAIN line : isName[k] /\ line[k].name \in NamesOf(a)}
        written(a) == IF at(a) = {} THEN Untouched
                      ELSE IF a.type = "Set" THEN 1
                      ELSE Written(a, line[Min(at(a)) + 1])
    IN /\ nreq = Cardinality({i \in DOMAIN arguments :
                                arguments[i].required /\ ~arguments[i].found})
       /\ exit = "parsed" =>
            \A i \in DOMAIN arguments :
                LET a == arguments[i]
                IN /\ a.required => at(a) # {}
                   /\ Cardinality(at(a)) <= 1
                   /\ a.type # "Help" => value[a.var] = written(a)
=============================================================================
