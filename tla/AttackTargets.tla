---------------------------- MODULE AttackTargets ----------------------------
(***************************************************************************)
(* How the requests of an attack come to say which run they belong to: the  *)
(* run record (internal/api/run_handler.go), the attack's configuration     *)
(* (internal/api/attack_handler.go, AttackConfig.Validate), and the         *)
(* targeter that vegeta's workers call concurrently for every request       *)
(* (buildTargeter, internal/dedup, internal/trace).                         *)
(*                                                                          *)
(* Runs and one attack; a value is a trace id or a workflow label, and      *)
(* "absent" stands for the empty string.  Of a request the model has its    *)
(* baggage, a sequence of <<key, value>> entries, and the dedup keys put    *)
(* into it or its query.  Random keys and ids do not collide.               *)
(***************************************************************************)
EXTENDS Naturals, Sequences

CONSTANTS Run,        \* ids of runs
          Worker,     \* vegeta's workers
          Name,       \* workflow names
          Given,      \* trace ids and labels clients send
          Unsafe,     \* the texts with a comma, semicolon, equals or blank
          Fresh,      \* what id.NewLong() draws
          MaxSent,    \* bound: requests of the attack
          None

Absent == "absent"
Text == Name \cup Given \cup {Fresh}

ASSUME TargetsAssumption ==
    /\ Absent \notin Text
    /\ Fresh \notin Unsafe
    /\ None \notin Worker
    /\ MaxSent \in Nat

VARIABLES
    runs,       \* the run store: label and trace of each run
    stage,      \* where POST /attacks is
    cfg,        \* its AttackConfig
    headers,    \* the header maps: base.Header under None, each worker's own
    holds,      \* the map behind the t.Header of each worker
    wpc,        \* where each worker's call of the targeter is
    drawn,      \* dedup keys drawn so far
    sent        \* history: the requests handed to vegeta

targetVars == <<headers, holds, wpc, drawn, sent>>
vars == <<runs, stage, cfg, targetVars>>

TraceKey == "meta-trace-id"
LabelKey == "atropos.workflow"

\* The client's own baggage: none, someone's entry, or one that zeus adds too.
ClientBaggage ==
    {<< >>} \cup {<<(<<key, "theirs">>)>> : key \in {"vendor", TraceKey, LabelKey}}
Config ==
    [wellFormed : BOOLEAN, parses : BOOLEAN, runRef : Run \cup {Absent},
     trace : Given \cup {Absent}, label : Given \cup {Absent},
     strategy : {"none", "header", "query", "body"},
     source : {Absent, "named", "baggage"}, baggage : ClientBaggage]

Blank == [baggage |-> << >>, keys |-> {}]
NoConfig == [wellFormed |-> FALSE, parses |-> FALSE, runRef |-> Absent,
             trace |-> Absent, label |-> Absent, strategy |-> "none",
             source |-> Absent, baggage |-> << >>]

Init ==
    /\ runs = [r \in Run |-> None]
    /\ stage = "idle"
    /\ cfg = NoConfig
    /\ headers = [w \in Worker \cup {None} |-> Blank]
    /\ holds = [w \in Worker |-> w]
    /\ wpc = [w \in Worker |-> "idle"]
    /\ drawn = 0
    /\ sent = << >>

-----------------------------------------------------------------------------
(* POST /workflows/{id}/runs                                                *)

ResolveWorkflowLabel(explicit, name) == IF explicit # Absent THEN explicit ELSE name

\* A run whose dataset fails the handshake is kept without a trace id.
CreateRun(r) ==
    /\ runs[r] = None
    /\ \E name \in Name, label \in Given \cup {Absent},
          trace \in Given \cup {Absent}, accepted \in BOOLEAN :
        runs' = [runs EXCEPT ![r] =
            [label |-> ResolveWorkflowLabel(label, name),
             trace |-> IF ~accepted THEN Absent
                       ELSE IF trace # Absent THEN trace ELSE Fresh,
             accepted |-> accepted]]
    /\ UNCHANGED <<stage, cfg, targetVars>>

-----------------------------------------------------------------------------
(* POST /attacks: handleCreateAttack and Validate.                          *)

Decode ==
    /\ stage = "idle"
    /\ cfg' \in Config
    /\ stage' = "decoded"
    /\ UNCHANGED <<runs, targetVars>>

\* Mutant: the trace id is inherited, the label is not.
Inherited_TraceOnly(c) ==
    [c EXCEPT !.trace = IF @ = Absent THEN runs[c.runRef].trace ELSE @]

\* What the request leaves open is taken from the run.
Inherited(c) ==
    [c EXCEPT !.trace = IF @ = Absent THEN runs[c.runRef].trace ELSE @,
              !.label = IF @ = Absent THEN runs[c.runRef].label ELSE @]

\* A run_ref of no run is answered 400.
LinkRun ==
    /\ stage = "decoded"
    /\ IF cfg.runRef = Absent THEN stage' = "linked" /\ UNCHANGED cfg
       ELSE IF runs[cfg.runRef] = None THEN stage' = "rejected" /\ UNCHANGED cfg
       ELSE stage' = "linked" /\ cfg' = Inherited(cfg)
    /\ UNCHANGED <<runs, targetVars>>

\* Mutant: the label, which may come from a run, is taken as it is.
Valid_AnyLabel(c) ==
    /\ c.wellFormed
    /\ c.trace \notin Unsafe
    /\ c.strategy \in {"none", "header", "query"}

Valid(c) ==
    /\ c.wellFormed
    /\ c.trace \notin Unsafe
    /\ c.label \notin Unsafe
    /\ c.strategy \in {"none", "header", "query"}

\* Validate fills in the source, buildTargeter makes the base header.
LaunchAttack ==
    /\ stage = "linked"
    /\ Valid(cfg)
    /\ stage' = "launched"
    /\ cfg' = [cfg EXCEPT !.source = IF @ = Absent THEN "default" ELSE @]
    /\ headers' = [headers EXCEPT ![None] = [baggage |-> cfg.baggage, keys |-> {}]]
    /\ UNCHANGED <<runs, holds, wpc, drawn, sent>>

RejectAttack ==
    /\ stage = "linked"
    /\ ~Valid(cfg)
    /\ stage' = "rejected"
    /\ UNCHANGED <<runs, cfg, targetVars>>

-----------------------------------------------------------------------------
(* The targeter, called by each worker.                                     *)

\* Mutant: *t = base alone, which shares the map.
CopyBase_Shared(w) ==
    /\ stage = "launched" /\ wpc[w] = "idle" /\ Len(sent) < MaxSent
    /\ holds' = [holds EXCEPT ![w] = None]
    /\ wpc' = [wpc EXCEPT ![w] = "copied"]
    /\ UNCHANGED <<runs, stage, cfg, headers, drawn, sent>>

\* *t = base; t.Header = base.Header.Clone()
CopyBase(w) ==
    /\ stage = "launched" /\ wpc[w] = "idle" /\ Len(sent) < MaxSent
    /\ headers' = [headers EXCEPT ![w] = headers[None]]
    /\ holds' = [holds EXCEPT ![w] = w]
    /\ wpc' = [wpc EXCEPT ![w] = "copied"]
    /\ UNCHANGED <<runs, stage, cfg, drawn, sent>>

\* Mutant: the key is drawn when the bypass is built.
Key_PerAttack == 1

\* generateUniqueID
Key == drawn + 1

\* HeaderMutator sets the header, QueryParamMutator the parameter.  The header
\* may be the baggage itself: the key then replaces what the client put there.
OwnBaggage ==
    IF cfg.strategy = "header" /\ cfg.source = "baggage"
    THEN <<(<<"dedup", "key">>)>> ELSE cfg.baggage

Bypassed(h, key) ==
    [baggage |-> IF cfg.strategy = "header" /\ cfg.source = "baggage"
                 THEN OwnBaggage ELSE h.baggage,
     keys |-> {key}]

\* Transform on a clone of the request.
Transform(w) ==
    /\ wpc[w] = "copied"
    /\ cfg.strategy # "none"
    /\ cfg.parses
    /\ drawn' = drawn + 1
    /\ headers' = [headers EXCEPT ![w] = Bypassed(headers[holds[w]], Key)]
    /\ holds' = [holds EXCEPT ![w] = w]
    /\ wpc' = [wpc EXCEPT ![w] = "bypassed"]
    /\ UNCHANGED <<runs, stage, cfg, sent>>

\* http.NewRequest refuses the URL: the targeter fails and vegeta stops.
TargeterError(w) ==
    /\ wpc[w] = "copied"
    /\ cfg.strategy # "none"
    /\ ~cfg.parses
    /\ wpc' = [wpc EXCEPT ![w] = "failed"]
    /\ UNCHANGED <<runs, stage, cfg, headers, holds, drawn, sent>>

\* The entries the configuration asks for.
Entries(c) ==
    {e \in {<<TraceKey, c.trace>>, <<LabelKey, c.label>>} : e[2] # Absent}

\* A Go map is ranged over in any order.
Orders(S) ==
    {s \in UNION {[1 .. n -> S] : n \in 0 .. 2} :
        /\ \A e \in S : \E i \in DOMAIN s : s[i] = e
        /\ \A i, j \in DOMAIN s : s[i] = s[j] => i = j}

\* InjectLabeledBaggage, and the worker sends the request.
Inject(w) ==
    /\ IF cfg.strategy = "none" THEN wpc[w] = "copied" ELSE wpc[w] = "bypassed"
    /\ \E s \in Orders(Entries(cfg)) :
        headers' = [headers EXCEPT ![holds[w]] =
                        [baggage |-> @.baggage \o s, keys |-> @.keys]]
    /\ sent' = Append(sent, headers'[holds[w]])
    /\ wpc' = [wpc EXCEPT ![w] = "idle"]
    /\ UNCHANGED <<runs, stage, cfg, holds, drawn>>

-----------------------------------------------------------------------------
Next ==
    \/ \E r \in Run : CreateRun(r)
    \/ Decode
    \/ LinkRun
    \/ LaunchAttack
    \/ RejectAttack
    \/ \E w \in Worker : CopyBase(w)
    \/ \E w \in Worker : Transform(w)
    \/ \E w \in Worker : TargeterError(w)
    \/ \E w \in Worker : Inject(w)

Spec == Init /\ [][Next]_vars

-----------------------------------------------------------------------------
(* Safety.                                                                  *)

\* Every request carries its own baggage and then each entry of the
\* configuration exactly once, however many requests the concurrent workers
\* have made from the same base header (attacker.go:311-312, 341-350).
BaggageExact ==
    \A i \in DOMAIN sent :
        \E s \in Orders(Entries(cfg)) : sent[i].baggage = OwnBaggage \o s

\* No two requests carry the same dedup key, and a bypass leaves none without
\* one (dedup/bypass.go:9-11).
KeysFresh ==
    \A i, j \in DOMAIN sent :
        /\ sent[i].keys = {} <=> cfg.strategy = "none"
        /\ i # j => sent[i].keys \cap sent[j].keys = {}

\* A launched attack of a run is never sent without a workflow label, nor, when
\* the run was accepted, without a trace: no silent miss of the rules that
\* match on them (attack_handler.go:37-42).  A rejected run has no trace to give.
RunCorrelated ==
    stage = "launched" /\ cfg.runRef # Absent =>
        /\ cfg.label # Absent
        /\ cfg.trace = Absent => ~runs[cfg.runRef].accepted

\* What a receiver reads under a key: the first entry that has it
\* (trace/context.go:52-64); an unsafe value does not survive the parsing.
Extract(key, baggage) ==
    LET at == {i \in DOMAIN baggage : baggage[i][1] = key}
        first == baggage[CHOOSE i \in at : \A j \in at : i <= j][2]
    IN IF at = {} THEN Absent ELSE IF first \in Unsafe THEN "garbled" ELSE first

\* A receiver reads back the label and the trace of the attack, save where the
\* request's own baggage names one first; values inherited from a run are
\* checked like those of the request (attack_handler.go:46-51, attacker.go:97-106).
ReceiverReads ==
    \A i \in DOMAIN sent :
        \A e \in {<<TraceKey, cfg.trace>>, <<LabelKey, cfg.label>>} :
            LET theirs == Extract(e[1], OwnBaggage)
            IN Extract(e[1], sent[i].baggage) =
                   IF theirs # Absent THEN theirs ELSE e[2]

-----------------------------------------------------------------------------
(* The inductive invariant behind the safety properties.                    *)

Entry == {"vendor", "dedup", TraceKey, LabelKey} \X (Text \cup {"theirs", "key"})
Request == [baggage : Seq(Entry), keys : SUBSET Nat]

TypeOK ==
    /\ runs \in [Run -> [label : Text, trace : Text \cup {Absent}, accepted : BOOLEAN]
                        \cup {None}]
    /\ stage \in {"idle", "decoded", "linked", "rejected", "launched"}
    /\ cfg \in [wellFormed : BOOLEAN, parses : BOOLEAN, runRef : Run \cup {Absent},
                trace : Text \cup {Absent}, label : Text \cup {Absent},
                strategy : {"none", "header", "query", "body"},
                source : {Absent, "named", "baggage", "default"},
                baggage : ClientBaggage]
    /\ headers \in [Worker \cup {None} -> Request]
    /\ holds \in [Worker -> Worker \cup {None}]
    /\ wpc \in [Worker -> {"idle", "copied", "bypassed", "failed"}]
    /\ drawn \in Nat
    /\ sent \in Seq(Request)

\* The base header is written once; from then on every worker writes its own.
WorkersOwn ==
    /\ stage # "launched" =>
        /\ headers[None] = Blank
        /\ sent = << >>
        /\ \A w \in Worker : wpc[w] = "idle"
    /\ stage = "launched" =>
        headers[None] = [baggage |-> cfg.baggage, keys |-> {}]
    /\ \A w \in Worker :
        /\ wpc[w] = "copied" => holds[w] = w /\ headers[w] = headers[None]
        /\ wpc[w] = "bypassed" =>
            /\ holds[w] = w /\ cfg.strategy # "none"
            /\ headers[w].baggage = OwnBaggage
            /\ \E k \in 1 .. drawn : headers[w].keys = {k}

\* A key in a worker's hands has not been sent and nobody else has it.
KeysApart ==
    /\ \A i \in DOMAIN sent : sent[i].keys \subseteq 1 .. drawn
    /\ \A w \in Worker : wpc[w] = "bypassed" =>
        /\ \A i \in DOMAIN sent : headers[w].keys \cap sent[i].keys = {}
        /\ \A v \in Worker \ {w} :
            wpc[v] = "bypassed" => headers[w].keys \cap headers[v].keys = {}

\* What the handler knows of the run when it has linked the attack to it.
RunLinked ==
    stage \in {"linked", "launched"} /\ cfg.runRef # Absent =>
        /\ runs[cfg.runRef] # None
        /\ cfg.label # Absent
        /\ cfg.trace = Absent => ~runs[cfg.runRef].accepted

\* An accepted run has a trace.
RunsTraced ==
    \A r \in Run : runs[r] # None /\ runs[r].accepted => runs[r].trace # Absent

\* What Validate let pass can be read back.
LaunchedValid ==
    stage = "launched" => cfg.trace \notin Unsafe /\ cfg.label \notin Unsafe

IInv ==
    /\ TypeOK
    /\ WorkersOwn
    /\ KeysApart
    /\ RunLinked
    /\ RunsTraced
    /\ LaunchedValid
    /\ BaggageExact
    /\ KeysFresh
=============================================================================
