-------------------------------- MODULE Options --------------------------------
(***************************************************************************)
(* The command lines of the ALP listings: the HTTP server's main           *)
(* (chapter-11/main.c), up to its call of server_run, and the listing it   *)
(* grew from (chapter-2/getopt_long.c).  The words are abstracted to what  *)
(* getopt_long and the two mains tell apart.                               *)
(***************************************************************************)
EXTENDS Integers, Sequences, FiniteSets

CONSTANTS Ports,     \* the numbers strtol may find after -p
          PortRange, \* 2^16: htons takes a uint16_t
          MaxWords   \* bound: words after the program's name

VARIABLES tool,     \* "server" or "getopt_long"
          argv,     \* the words
          optind,   \* the next one
          moved,    \* the words getopt_long has put behind the options
          settings, \* address, port, module_dir, verbose and output_filename
          at,       \* "starts", "parses", "parsed" or "ended"
          outcome,  \* "none", an exit code, "serves", "aborted" or "crashed"
          printed   \* the arguments printed

optVars == <<tool, argv, optind, moved, settings, at, outcome, printed>>

(* A word is an option with what follows it, or an argument; hosts,        *)
(* directories, files and arguments are numbered.  "?" is an option nobody *)
(* knows, or one that lacks its argument, "--abbreviated" a long option    *)
(* that is not spelt out, and Unusable the values that are refused.        *)
Word(kind, value) == [kind |-> kind, value |-> value]

UnusableDirs == {"-m_missing", "-m_locked", "-m_file"}
Unusable     == UnusableDirs \cup {"-a_unknown", "-p_junk"}

Words == [server |-> {Word("-p", n) : n \in Ports}
                     \cup {Word(k, n) : k \in {"-a", "-m"}, n \in 1 .. 2}
                     \cup {Word(k, 0) : k \in Unusable \cup {"-h", "-v", "?", "--", "--abbreviated", "argument"}},
          getopt_long |-> {Word(k, n) : k \in {"-o", "argument"}, n \in 1 .. 2}
                          \cup {Word(k, 0) : k \in {"-h", "-v", "?", "--"}}]

(* 0: any address, any port, the program's own directory, standard output. *)
Defaults == [address |-> 0, port |-> 0, dir |-> 0, verbose |-> FALSE, output |-> 0]

Init == /\ tool \in {"server", "getopt_long"}
        /\ \E n \in 0 .. MaxWords : argv \in [1 .. n -> Words[tool]]
        /\ optind = 1 /\ moved = <<>> /\ settings = Defaults
        /\ at = "starts" /\ outcome = "none" /\ printed = <<>>

Exits(how) == at' = "ended" /\ outcome' = how /\ UNCHANGED <<tool, argv, optind, moved, settings, printed>>

-------------------------------------------------------------------------------
(* The server first finds the directory it runs from, which aborts when    *)
(* /proc cannot be read or the program lies in the root.                   *)
GetSelfExecutableDirectory ==
  /\ at = "starts" /\ tool = "server"
  /\ \/ Exits("aborted")
     \/ at' = "parses" /\ UNCHANGED <<tool, argv, optind, moved, settings, outcome, printed>>

Starts == /\ at = "starts" /\ tool = "getopt_long" /\ at' = "parses"
          /\ UNCHANGED <<tool, argv, optind, moved, settings, outcome, printed>>

(* getopt_long: arguments on the way to the next option are put behind it. *)
Parsing == at = "parses" /\ optind <= Len(argv)

Option(kind) == Parsing /\ argv[optind].kind = kind

Optarg == argv[optind].value

PassOver == /\ Option("argument")
            /\ moved' = Append(moved, argv[optind]) /\ optind' = optind + 1
            /\ UNCHANGED <<tool, argv, settings, at, outcome, printed>>

Done == /\ \/ at = "parses" /\ optind > Len(argv) /\ moved' = moved
           \/ Option("--") /\ moved' = moved \o SubSeq(argv, optind + 1, Len(argv))
        /\ at' = "parsed"
        /\ UNCHANGED <<tool, argv, optind, settings, outcome, printed>>

Set(field, value) == /\ settings' = [settings EXCEPT ![field] = value]
                     /\ optind' = optind + 1
                     /\ UNCHANGED <<tool, argv, moved, at, outcome, printed>>

-------------------------------------------------------------------------------
Address == \/ Option("-a") /\ Set("address", Optarg)
           \/ Option("-a_unknown") /\ Exits("1")

Help == Option("-h") /\ Exits("0")

(* access, access again and stat, each with its own error.                 *)
ModuleDir == \/ Option("-m") /\ Set("dir", Optarg)
             \/ (\E kind \in UnusableDirs : Option(kind)) /\ Exits("1")

Port == \/ Option("-p") /\ Set("port", Optarg % PortRange)
        \/ Option("-p_junk") /\ Exits("1")

Output == Option("-o") /\ Set("output", Optarg)

Verbose == Option("-v") /\ Set("verbose", TRUE)

Unrecognized == Option("?") /\ Exits("1")

(* The server's table has no last line of zeros: to tell whether a long    *)
(* option is short for one, or for none, getopt_long reads past its end,   *)
(* and finds zeros, another option or nothing it may read.                 *)
PastTheTable == /\ Option("--abbreviated")
                /\ Exits("1") \/ Exits("crashed") \/ Set("verbose", TRUE)

(* Mutation: optind is not compared with argc.                             *)
RunAnyway == /\ at = "parsed" /\ tool = "server" /\ Exits("serves")

ServerRun == /\ at = "parsed" /\ tool = "server"
             /\ Exits(IF moved # <<>> THEN "1" ELSE "serves")

PrintArguments == /\ at = "parsed" /\ tool = "getopt_long"
                  /\ printed' = IF settings.verbose THEN [i \in DOMAIN moved |-> moved[i].value] ELSE <<>>
                  /\ at' = "ended" /\ outcome' = "0"
                  /\ UNCHANGED <<tool, argv, optind, moved, settings>>

Next == GetSelfExecutableDirectory \/ Starts \/ PassOver \/ Done \/ PastTheTable \/ Address \/ Help \/ ModuleDir
        \/ Port \/ Output \/ Verbose \/ Unrecognized \/ ServerRun \/ PrintArguments

Spec == Init /\ [][Next]_optVars
-------------------------------------------------------------------------------
(* The command line read as a whole: words after "--" are no options, and  *)
(* the first option that cannot be obeyed, or the first -h, decides.       *)
Before(i)   == \A j \in 1 .. i - 1 : argv[j].kind # "--"
IsOption(i) == Before(i) /\ argv[i].kind \notin {"argument", "--"}
Given(kind) == {i \in DOMAIN argv : IsOption(i) /\ argv[i].kind = kind}
Stops(i)    == IsOption(i) /\ argv[i].kind \in Unusable \cup {"-h", "?"}
FirstStop   == {i \in DOMAIN argv : Stops(i) /\ \A j \in 1 .. i - 1 : ~Stops(j)}
IsArgument(i) == ~Before(i) \/ argv[i].kind = "argument"
Arguments   == {i \in DOMAIN argv : IsArgument(i)}
Place(i)    == Cardinality({j \in Arguments : j <= i})

(* The last option of a kind holds.                                        *)
Latest(S) == IF S = {} THEN 0 ELSE argv[CHOOSE i \in S : \A j \in S : j <= i].value
Settings  == [address |-> Latest(Given("-a")), port |-> Latest(Given("-p")) % PortRange,
              dir |-> Latest(Given("-m")), verbose |-> Given("-v") # {}, output |-> Latest(Given("-o"))]

(* The server runs with what the last option of each kind says, and only   *)
(* when every word is an option that can be obeyed; otherwise the first    *)
(* that cannot decides the exit (main.c:75-152).  The other program takes  *)
(* its options wherever they stand and prints the arguments, in order      *)
(* (getopt_long.c:55-95).                                                  *)
DoesAsTold ==
  at = "ended" /\ outcome # "aborted" /\ Given("--abbreviated") = {} =>
    IF FirstStop # {}
    THEN \A i \in FirstStop : outcome = IF argv[i].kind = "-h" THEN "0" ELSE "1"
    ELSE /\ settings = Settings
         /\ outcome = IF tool = "getopt_long" THEN "0" ELSE IF Arguments = {} THEN "serves" ELSE "1"
         /\ tool = "getopt_long" =>
              /\ Len(printed) = IF Settings.verbose THEN Cardinality(Arguments) ELSE 0
              /\ Settings.verbose => \A i \in Arguments : printed[Place(i)] = argv[i].value
===============================================================================
