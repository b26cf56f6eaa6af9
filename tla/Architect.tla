----------------------------- MODULE Architect -----------------------------
(***************************************************************************)
(* The architect's programs: roles/architect/architect_agent.c.  A spec is   *)
(* turned into a program by a template or, failing that, by a language       *)
(* model; the program is submitted and catalogued.                           *)
(*                                                                         *)
(* An intent is the class of its first keyword; all of a class give the same *)
(* program.  Abstracted: prompts, parameters and data keys, the peer table   *)
(* (which nothing reads), and the governance vote, which has no topic and    *)
(* reaches nobody.                                                          *)
(***************************************************************************)
EXTENDS Ring

CONSTANTS
  Intents,        \* what a spec may ask for
  Templated,      \* the intents with a keyword of template_select()
  TemplateFor,    \* and the program of the template they select
  Generated,      \* what a language model may answer
  Valid,          \* the programs that pass the dry run
  HasModel,       \* --llm-host or --code-host
  MaxRetries      \* MAX_RETRIES

ASSUME ArchitectAssumption ==
  /\ Templated \subseteq Intents
  /\ HasModel \in BOOLEAN
  /\ MaxRetries \in Nat \ {0}

VARIABLES
  catalog,    \* g_catalog
  answer,     \* of the last POST /generate, with what it was asked for
  announced   \* ghost: the last programs published on nml/program

architectVars == <<catalog, answer, announced>>

Nothing == [program |-> "none", prov |-> "none"]

NoEntry == [program |-> "none", prov |-> "none", spec |-> "none"]

NoAnswer == [ok |-> FALSE, spec |-> "none", built |-> FALSE, entry |-> NoEntry]

ArchitectInit == /\ catalog = EmptyRing
                 /\ answer = NoAnswer
                 /\ announced = <<>>

\* What code_generate() or llm_generate() come to, attempt by attempt: "failed",
\* or a program.  The loop ends with the first valid one.
Attempts == UNION {[1..n -> Generated \union {"failed"}] : n \in 1..MaxRetries}

Ends(attempts) ==
  /\ \A i \in 1..(Len(attempts) - 1) : attempts[i] \notin Valid
  /\ attempts[Len(attempts)] \in Valid \/ Len(attempts) = MaxRetries

Outcome(attempts) ==
  IF attempts[Len(attempts)] \in Valid
  THEN [program |-> attempts[Len(attempts)], prov |-> "llm"] ELSE Nothing

\* A template's program is dropped when it does not pass the dry run.
FromTemplate(intent) ==
  IF TemplateFor[intent] \in Valid
  THEN [program |-> TemplateFor[intent], prov |-> "template"] ELSE Nothing

\* Templates first, and models only without a template.
Builds(intent) ==
  IF intent \in Templated THEN {FromTemplate(intent)}
  ELSE IF HasModel THEN {Outcome(a) : a \in {b \in Attempts : Ends(b)}}
  ELSE {Nothing}

Entry(build, intent) ==
  [program |-> build.program, prov |-> build.prov, spec |-> intent]

\* The end of handle_spec(): submit_program() and then catalog_add().
Submit(build, intent) ==
  /\ catalog' = RingAdd(catalog, Entry(build, intent))
  /\ announced' = Latest(announced, Entry(build, intent))

\* handle_spec().  Nothing is submitted without a program, or when the send
\* buffer is full.
HandleSpec(intent, build, sent) ==
  /\ build \in Builds(intent)
  /\ IF build # Nothing /\ sent
     THEN Submit(build, intent)
     ELSE UNCHANGED <<catalog, announced>>

\* POST /generate: the answer describes the newest entry if the catalog grew,
\* and also if it is full, whatever became of the spec.
Grown == Len(catalog'.entries) > Len(catalog.entries)

\* That the catalog stops growing is not thought of.
BugAnswersOk == Grown

AnswersOk == Grown \/ IsFullRing(catalog')

NewestEntry == Newest(catalog')

Generate(intent, build, sent) ==
  /\ HandleSpec(intent, build, sent)
  /\ answer' = [ok |-> AnswersOk, spec |-> intent,
                built |-> build # Nothing /\ sent,
                entry |-> IF AnswersOk THEN NewestEntry ELSE NoEntry]

\* A MSG_SPEC from the transport.
HearSpec(intent, build, sent) == /\ HandleSpec(intent, build, sent)
                                 /\ UNCHANGED answer

-----------------------------------------------------------------------------
(* Correctness *)

Entries == [program : Valid, prov : {"template", "llm"}, spec : Intents]

\* The catalog holds exactly the programs published last: none that failed to
\* be sent, none twice, whichever slots were overwritten (catalog_add()).
CatalogIsLatest == InOrder(catalog) = announced

Published == INSTANCE Recent WITH recent <- InOrder(catalog),
                                  Elements <- Entries

\* Put abstractly: the catalog is the record of the last Capacity programs.
ImplementsRecent == Published!Spec

\* The answer to POST /generate tells of the program that was made for the
\* request, when one was made; and before the catalog is full it says so when
\* none was made.
AnswersTrue ==
  /\ answer.built => answer.ok /\ answer.entry.spec = answer.spec
  /\ answer.ok => answer.built \/ IsFullRing(catalog)
=============================================================================
