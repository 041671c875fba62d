------------------------------ MODULE TableRules ------------------------------
(***************************************************************************)
(* The requests of sn-p4 that change tables: clear_table and               *)
(* insert_or_delete_table_rule of table.cpp, from the stream of a batch to *)
(* the driver of each pipeline, through the packing of snp4_table.c and    *)
(* the calls of snp4_api.c; and the one that walks them, get_pipeline_info *)
(* of pipeline.cpp, which dumps each table into the log when it is told    *)
(* to debug.                                                               *)
(*                                                                         *)
(* Nothing in the agent keeps two workers from the driver of a pipeline; a *)
(* call of the driver is taken to be one step.  The driver is external: a  *)
(* table is a function from keys to what was inserted with them.           *)
(***************************************************************************)
EXTENDS RulePack, P4Info, FiniteSets

CONSTANTS Worker,
          NPipelines,    \* number of pipelines of each device, as a sequence
          TableInfo,     \* what TablesOf says of each table, by name
          TableList,     \* the names in the order of the driver
          Request,       \* the requests that a worker may be sent, for each
          Idle,
          Coming         \* bound: what may be sent first, second, and so on

\* A pipeline is known by the numbers of its device and of itself.
Pipe == UNION {{d - 1} \X (0 .. NPipelines[d] - 1) : d \in DOMAIN NPipelines}


\* "Certain table modes insist on a NULL mask parameter": so inserts and deletes,
\* and the driver; and so, with one mode less, the walk.
NoMask == {"DCAM", "BCAM", "TINY_BCAM"}
WalkNoMask == {"DCAM", "BCAM"}

\* The tables of a configuration as the requests find them: by name.
TablesOf(config) ==
  LET tables == GetPipeline(config).tables
  IN  [t \in Names(tables) |->
         LET ti == Named(tables, t)
         IN  [fields |-> ti.matches, key_bits |-> ti.key_bits, mode |-> ti.mode,
              num_entries |-> ti.num_entries,
              actions |-> [a \in Names(ti.actions) |-> Named(ti.actions, a).params]]]

ASSUME PipelinesAssumption == NPipelines \in Seq(Nat)

\* The driver lists all of its tables.
ASSUME TableListAssumption ==
  TableList \in Seq(DOMAIN TableInfo) /\ ToSet(TableList) = DOMAIN TableInfo

\* What the compiler of a P4 program writes: a key is at least as long as its fields
\* together, and the parameters of an action fit the uint16_t that adds them up.
ASSUME TableInfoAssumption ==
  \A t \in DOMAIN TableInfo :
    LET info == TableInfo[t]
    IN  /\ IsList(info.fields)
        /\ \A i \in 1 .. Len(info.fields) : info.fields[i].bits \in Nat
        /\ info.key_bits \in Nat \ {0}
        /\ Total(Widths(info.fields)) <= info.key_bits
        /\ IsFiniteSet(DOMAIN info.actions)
        /\ \A a \in DOMAIN info.actions :
             info.actions[a] \in Seq(Nat) /\ Total(info.actions[a]) <= UINT16_MAX

\* The messages that a client may send.
IsText(x) == x # <<>> => x[1] \in Int

IsMatch(m) ==
  /\ m.format \in {"key_mask", "key_only", "prefix"} => IsText(m.key)
  /\ m.format = "key_mask" => IsText(m.mask)
  /\ m.format = "prefix" => m.mask \in Nat
  /\ m.format = "range" => m.key \in Nat /\ m.mask \in Nat

IsRule(rule) ==
  /\ IsList(rule.matches) /\ \A i \in 1 .. Len(rule.matches) : IsMatch(rule.matches[i])
  /\ IsList(rule.params) /\ \A i \in 1 .. Len(rule.params) : IsText(rule.params[i])

ASSUME RequestAssumption ==
  \A w \in Worker : \A r \in Request[w] :
    /\ r.op \in {"insert", "delete", "clear", "info"}
    /\ r.dev \in Int /\ r.pipe \in Int
    /\ IsList(r.rules) /\ \A i \in 1 .. Len(r.rules) : IsRule(r.rules[i])

VARIABLES tables,    \* the tables that the drivers keep
          sent,      \* requests up to now
          req,       \* the request of each worker, or Idle
          todo,      \* where the loops over devices and pipelines still go
          pc, at,    \* where in the loop over rules or tables it is
          err,       \* the error code of the response being built
          pack,      \* the three arrays of struct sn_pack
          entered,   \* history: the tables of the pipeline when its pass began
          quiet,     \* history: and no other worker changed them since
          past,      \* history: what the entries of the table under the walk have been
          answers,   \* the responses written for the request
          cursor,    \* where in a table the walk is: an action and a position in it
          found,     \* the key that get_by_response has found, or Idle
          dump,      \* the lines of each table dumped in the present pass
          cut        \* history: the tables of which an error of the driver ended the dump

walkVars == <<cursor, found, dump, cut>>
vars == <<tables, sent, req, todo, pc, at, err, pack, entered, quiet, past, answers,
          walkVars>>

Empty == [k \in {} |-> {}]
Start == [action |-> 1, position |-> 0]
NoPack == [key |-> "null", mask |-> "null", params |-> "null"]

Init == /\ tables = [p \in Pipe |-> [t \in DOMAIN TableInfo |-> Empty]]
        /\ sent = 0
        /\ req = [w \in Worker |-> Idle]
        /\ todo = [w \in Worker |-> <<>>]
        /\ pc = [w \in Worker |-> "idle"]
        /\ at = [w \in Worker |-> 1]
        /\ err = [w \in Worker |-> "OK"]
        /\ pack = [w \in Worker |-> NoPack]
        /\ entered = [w \in Worker |-> Idle]
        /\ quiet = [w \in Worker |-> TRUE]
        /\ past = [w \in Worker |-> {}]
        /\ answers = [w \in Worker |-> <<>>]
        /\ cursor = [w \in Worker |-> Start]
        /\ found = [w \in Worker |-> Idle]
        /\ dump = [w \in Worker |-> Empty]
        /\ cut = [w \in Worker |-> {}]

-----------------------------------------------------------------------------
(* The loops over devices and pipelines.                                   *)

Target(d, p, code) == [dev |-> d, pipe |-> p, code |-> code]

PipeTargets(d, pipe) ==
  IF pipe > NPipelines[d + 1] - 1 THEN <<Target(d, -1, "INVALID_PIPELINE_ID")>>
  ELSE IF pipe > -1 THEN <<Target(d, pipe, "OK")>>
  ELSE [i \in 1 .. NPipelines[d + 1] |-> Target(d, i - 1, "OK")]

Targets(r) ==
  IF r.dev > Len(NPipelines) - 1 THEN <<Target(-1, -1, "INVALID_DEVICE_ID")>>
  ELSE IF r.dev > -1 THEN PipeTargets(r.dev, r.pipe)
  ELSE LET upTo[d \in 0 .. Len(NPipelines)] ==
             IF d = 0 THEN <<>> ELSE upTo[d - 1] \o PipeTargets(d - 1, r.pipe)
       IN  upTo[Len(NPipelines)]

\* The next request of the stream that the worker reads.
Begin(w) ==
  /\ pc[w] = "idle"
  /\ sent < Len(Coming)
  /\ sent' = sent + 1
  /\ \E r \in Request[w] \cap Coming[sent + 1] :
       /\ req' = [req EXCEPT ![w] = r]
       /\ todo' = [todo EXCEPT ![w] = Targets(r)]
  /\ pc' = [pc EXCEPT ![w] = "loop"]
  /\ answers' = [answers EXCEPT ![w] = <<>>]
  /\ UNCHANGED <<tables, at, err, pack, entered, quiet, past, walkVars>>

\* The pipeline of the present pass.
Here(w) == <<Head(todo[w]).dev, Head(todo[w]).pipe>>

Passing(w) == pc[w] \notin {"idle", "loop"}

\* The walk over a table that is being dumped.
Walking(w) == pc[w] \in {"walk", "lookup"}
OfInfo(w)  == TableList[at[w]]
Content(w) == tables[Here(w)][OfInfo(w)]

\* What a dump should show of a table.
Pairs(table) == {<<k, table[k]>> : k \in DOMAIN table}

\* A table of the present pipeline changes, and other passes over it see that.
Change(w, t, content) ==
  /\ tables' = [tables EXCEPT ![Here(w)][t] = content]
  /\ quiet' = [u \in Worker |->
                 quiet[u] /\ (u = w \/ ~ Passing(u) \/ Here(u) # Here(w))]
  /\ past' = [u \in Worker |->
                IF Walking(u) /\ Here(u) = Here(w) /\ OfInfo(u) = t
                THEN past[u] \cup Pairs(content) ELSE past[u]]

Respond(w, code) ==
  /\ answers' = [answers EXCEPT ![w] = Append(@, [Head(todo[w]) EXCEPT !.code = code])]
  /\ todo' = [todo EXCEPT ![w] = Tail(@)]

\* Fault: what is wrong for one device ends the whole request.
Refuse_Return(w) ==
  /\ pc[w] = "loop"
  /\ todo[w] # <<>>
  /\ Head(todo[w]).code # "OK"
  /\ answers' = [answers EXCEPT ![w] = Append(@, Head(todo[w]))]
  /\ todo' = [todo EXCEPT ![w] = <<>>]
  /\ UNCHANGED <<tables, sent, req, pc, at, err, pack, entered, quiet, past, walkVars>>

\* A device or pipeline that is not there is answered at once.
Refuse(w) ==
  /\ pc[w] = "loop"
  /\ todo[w] # <<>>
  /\ Head(todo[w]).code # "OK"
  /\ Respond(w, Head(todo[w]).code)
  /\ UNCHANGED <<tables, sent, req, pc, at, err, pack, entered, quiet, past, walkVars>>

EnterPipeline(w) ==
  /\ pc[w] = "loop"
  /\ todo[w] # <<>>
  /\ Head(todo[w]).code = "OK"
  /\ pc' = [pc EXCEPT ![w] = CASE req[w].op = "clear" -> "clear"
                                [] req[w].op = "info"  -> "info"
                                [] OTHER               -> "rule"]
  /\ at' = [at EXCEPT ![w] = 1]
  /\ err' = [err EXCEPT ![w] = "OK"]
  /\ entered' = [entered EXCEPT ![w] = tables[Here(w)]]
  /\ UNCHANGED <<tables, sent, req, todo, pack, quiet, past, answers, walkVars>>

WriteResponse(w) ==
  /\ pc[w] = "respond"
  /\ Respond(w, err[w])
  /\ pc' = [pc EXCEPT ![w] = "loop"]
  /\ entered' = [entered EXCEPT ![w] = Idle]
  /\ quiet' = [quiet EXCEPT ![w] = TRUE]
  /\ dump' = [dump EXCEPT ![w] = Empty]
  /\ cut' = [cut EXCEPT ![w] = {}]
  /\ UNCHANGED <<tables, sent, req, at, err, pack, past, cursor, found>>

Finish(w) ==
  /\ pc[w] = "loop"
  /\ todo[w] = <<>>
  /\ pc' = [pc EXCEPT ![w] = "idle"]
  /\ req' = [req EXCEPT ![w] = Idle]
  /\ UNCHANGED <<tables, sent, todo, at, err, pack, entered, quiet, past, answers,
                 walkVars>>

-----------------------------------------------------------------------------
(* One rule: load it, pack it, give it to the driver.                      *)

Rule(w) == req[w].rules[at[w]]
Info(w) == TableInfo[Rule(w).table]

\* What the checks before packing say of a rule, in their order.
LoadStatus(op, rule) ==
  IF rule.table \notin DOMAIN TableInfo THEN "INVALID_TABLE_NAME"
  ELSE LET info  == TableInfo[rule.table]
           parse == FirstFailure([i \in DOMAIN rule.matches |-> ParseMatch(rule.matches[i])])
       IN IF Len(rule.matches) < Len(info.fields) THEN "TOO_FEW_MATCHES"
          ELSE IF Len(rule.matches) > Len(info.fields) THEN "TOO_MANY_MATCHES"
          ELSE IF parse # "OK" THEN parse
          ELSE IF op = "delete" THEN "OK"
          ELSE IF rule.action \notin DOMAIN info.actions THEN "INVALID_ACTION_NAME"
          ELSE LET widths == info.actions[rule.action]
               IN IF Len(rule.params) < Len(widths) THEN "TOO_FEW_PARAMETERS"
                  ELSE IF Len(rule.params) > Len(widths) THEN "TOO_MANY_PARAMETERS"
                  ELSE IF \E i \in DOMAIN rule.params : rule.params[i] = <<>>
                    THEN "INVALID_PARAMETER_FORMAT"
                  ELSE "OK"

\* *param_bits of an action: snp4_info_get_params adds up the widths in a uint16_t.
ParamBits(widths) == Total(widths) % (UINT16_MAX + 1)

\* table_rule_pack: the matches, and for an insert the parameters.
PackStatus(op, rule) ==
  LET info    == TableInfo[rule.table]
      matches == MatchesStatus(rule.matches, info.fields, info.key_bits)
      widths  == info.actions[rule.action]
  IN  IF matches # "OK" \/ op = "delete" THEN matches
      ELSE ParamsStatus(rule.params, widths, ParamBits(widths))

\* free(): what was freed and not set to NULL is freed a second time.
Freed(array) == IF array = "null" THEN "null"
                ELSE IF array = "live" THEN "freed" ELSE "freed_twice"

\* snp4_pack_clear frees each array that is not NULL and sets it to NULL.
Cleared(p) == [a \in DOMAIN p |-> IF Freed(p[a]) = "freed_twice" THEN "freed_twice"
                                  ELSE "null"]

\* The arrays when snp4_rule_pack_matches and snp4_rule_pack_params return.
Arrays(op, status) ==
  CASE status = "OK" ->
         [key |-> "live", mask |-> "live", params |-> IF op = "insert" THEN "live" ELSE "null"]
    [] status \in {"PACK_KEY_TOO_BIG", "PACK_MASK_TOO_BIG"} ->
         [key |-> "freed", mask |-> "freed", params |-> "null"]
    [] status = "PARAM_TOO_BIG" -> [key |-> "live", mask |-> "live", params |-> "null"]
    [] status = "PACK_PARAMS_TOO_BIG" ->
         [key |-> "live", mask |-> "live", params |-> "freed"]
    [] OTHER -> NoPack

\* Fault: the error of a load is noted, and the next rule is taken all the same.
LoadRule_GoesOn(w) ==
  /\ pc[w] = "rule"
  /\ at[w] <= Len(req[w].rules)
  /\ LET status == LoadStatus(req[w].op, Rule(w))
     IN /\ err' = [err EXCEPT ![w] = status]
        /\ pc' = [pc EXCEPT ![w] = IF status = "OK" THEN "pack" ELSE @]
        /\ at' = [at EXCEPT ![w] = IF status = "OK" THEN @ ELSE @ + 1]
  /\ UNCHANGED <<tables, sent, req, todo, pack, entered, quiet, past, answers, walkVars>>

\* One rule is read and parsed; the first that fails ends the pass.
LoadRule(w) ==
  /\ pc[w] = "rule"
  /\ at[w] <= Len(req[w].rules)
  /\ LET status == LoadStatus(req[w].op, Rule(w))
     IN /\ err' = [err EXCEPT ![w] = status]
        /\ pc' = [pc EXCEPT ![w] = IF status = "OK" THEN "pack" ELSE "respond"]
  /\ UNCHANGED <<tables, sent, req, todo, at, pack, entered, quiet, past, answers,
                 walkVars>>

\* snp4_rule_pack clears the pack when it fails; the matches of a delete,
\* packed on their own, do not.
PackRule(w) ==
  /\ pc[w] = "pack"
  /\ LET op     == req[w].op
         status == PackStatus(op, Rule(w))
         arrays == Arrays(op, status)
     IN /\ err' = [err EXCEPT ![w] = status]
        /\ pc' = [pc EXCEPT ![w] = IF status = "OK" THEN "driver" ELSE "respond"]
        /\ pack' = [pack EXCEPT ![w] = IF status = "OK" \/ op = "delete" THEN arrays
                                       ELSE Cleared(arrays)]
  /\ UNCHANGED <<tables, sent, req, todo, at, entered, quiet, past, answers, walkVars>>

\* The key and mask that the driver gets: some modes insist on no mask.
DriverKey(rule) ==
  LET info == TableInfo[rule.table]
      key  == PackedKey(rule.matches, info.fields)
  IN  IF info.mode \in NoMask THEN <<key>>
      ELSE <<key, PackedMask(rule.matches, info.fields)>>

DriverResult(rule) ==
  LET widths == TableInfo[rule.table].actions[rule.action]
  IN  <<rule.action, PackedParams(rule.params, widths, ParamBits(widths))>>

\* What the driver makes of a table; it refuses to insert what is there or when
\* the table is full, and to replace or delete what is not there.
Accepts(op, rule, table) ==
  CASE op = "delete" -> DriverKey(rule) \in DOMAIN table
    [] rule.replace  -> DriverKey(rule) \in DOMAIN table
    [] OTHER         -> /\ DriverKey(rule) \notin DOMAIN table
                        /\ Cardinality(DOMAIN table) < TableInfo[rule.table].num_entries

After(op, rule, table) ==
  LET key == DriverKey(rule)
  IN  IF op = "delete" THEN [k \in DOMAIN table \ {key} |-> table[k]]
      ELSE [k \in DOMAIN table \cup {key} |->
              IF k = key THEN DriverResult(rule) ELSE table[k]]

\* snp4_table_insert_kma or snp4_table_delete_k, and the clearing up after it.
CallDriver(w) ==
  /\ pc[w] = "driver"
  /\ LET op    == req[w].op
         rule  == Rule(w)
         table == tables[Here(w)][rule.table]
     IN \/ /\ Accepts(op, rule, table)
           /\ Change(w, rule.table, After(op, rule, table))
           /\ at' = [at EXCEPT ![w] = @ + 1]
           /\ pc' = [pc EXCEPT ![w] = "rule"]
           /\ UNCHANGED err
        \/ /\ err' = [err EXCEPT ![w] = IF op = "delete" THEN "FAILED_DELETE_TABLE_RULE"
                                        ELSE "FAILED_INSERT_TABLE_RULE"]
           /\ pc' = [pc EXCEPT ![w] = "respond"]
           /\ UNCHANGED <<tables, quiet, past, at>>
  /\ pack' = [pack EXCEPT ![w] = Cleared(@)]
  /\ UNCHANGED <<sent, req, todo, entered, answers, walkVars>>

RulesDone(w) ==
  /\ pc[w] = "rule"
  /\ at[w] > Len(req[w].rules)
  /\ pc' = [pc EXCEPT ![w] = "respond"]
  /\ UNCHANGED <<tables, sent, req, todo, at, err, pack, entered, quiet, past, answers,
                 walkVars>>

-----------------------------------------------------------------------------
(* Clearing one table, or all of them one after the other.                 *)

ToClear(r) == IF r.table = "" THEN TableList ELSE <<r.table>>

ResetTable(w) ==
  /\ pc[w] = "clear"
  /\ at[w] <= Len(ToClear(req[w]))
  /\ LET t == ToClear(req[w])[at[w]]
     IN \/ /\ t \in DOMAIN TableInfo
           /\ Change(w, t, Empty)
           /\ at' = [at EXCEPT ![w] = @ + 1]
           /\ UNCHANGED <<err, pc>>
        \/ /\ err' = [err EXCEPT ![w] =
                        IF t \notin DOMAIN TableInfo THEN "INVALID_TABLE_NAME"
                        ELSE IF req[w].table = "" THEN "FAILED_CLEAR_ALL_TABLES"
                        ELSE "FAILED_CLEAR_TABLE"]
           /\ pc' = [pc EXCEPT ![w] = "respond"]
           /\ UNCHANGED <<tables, quiet, past, at>>
  /\ UNCHANGED <<sent, req, todo, pack, entered, answers, walkVars>>

TablesDone(w) ==
  /\ pc[w] = "clear"
  /\ at[w] > Len(ToClear(req[w]))
  /\ pc' = [pc EXCEPT ![w] = "respond"]
  /\ UNCHANGED <<tables, sent, req, todo, at, err, pack, entered, quiet, past, answers,
                 walkVars>>

-----------------------------------------------------------------------------
(* Dumping the tables, one after the other.  Any call of the driver may    *)
(* fail, and what comes of a walk is not looked at.                        *)

Actions(t) == SetToSeq(DOMAIN TableInfo[t].actions)

\* The driver: the entries of an action, in an order of its own that is the same as
\* long as they are.
Entries(table, action) == SetToSeq({k \in DOMAIN table : table[k][1] = action})

\* The lines of one more table.
Begun(lines, t) == [u \in DOMAIN lines \cup {t} |-> IF u = t THEN <<>> ELSE lines[u]]

\* The flag is looked at for each table: another worker may set or reset it.
BeginDump(w) ==
  /\ pc[w] = "info"
  /\ at[w] <= Len(TableList)
  /\ \/ /\ pc' = [pc EXCEPT ![w] = "walk"]
        /\ dump' = [dump EXCEPT ![w] = Begun(@, OfInfo(w))]
        /\ past' = [past EXCEPT ![w] = Pairs(Content(w))]
        /\ UNCHANGED at
     \/ at' = [at EXCEPT ![w] = @ + 1] /\ UNCHANGED <<pc, past, dump>>
  /\ UNCHANGED <<tables, sent, req, todo, err, pack, entered, quiet, answers, cursor, found,
                 cut>>

\* The walk over this table is over: what it returns is not looked at.
EndDump(w) ==
  /\ pc' = [pc EXCEPT ![w] = "info"]
  /\ at' = [at EXCEPT ![w] = @ + 1]
  /\ cursor' = [cursor EXCEPT ![w] = Start]
  /\ past' = [past EXCEPT ![w] = {}]

\* An error of the driver ends it, and the next table is taken all the same.
CutDump(w) ==
  /\ EndDump(w)
  /\ cut' = [cut EXCEPT ![w] = @ \cup {OfInfo(w)}]

\* The next entry of an action, or the next action: get_by_response succeeds, or says
\* that the key is not found.
NextEntry(w, keys) ==
  IF cursor[w].position >= Len(keys)
  THEN /\ cursor' = [cursor EXCEPT ![w] = [action |-> @.action + 1, position |-> 0]]
       /\ UNCHANGED <<pc, found>>
  ELSE /\ found' = [found EXCEPT ![w] = keys[cursor[w].position + 1]]
       /\ cursor' = [cursor EXCEPT ![w].position = @ + 1]
       /\ pc' = [pc EXCEPT ![w] = "lookup"]

\* Fault: an action without entries, or without more of them, ends the walk.
GetByResponse_OneAction(w) ==
  LET keys == Entries(Content(w), Actions(OfInfo(w))[cursor[w].action])
  IN
  /\ pc[w] = "walk"
  /\ IF cursor[w].position >= Len(keys)
     THEN EndDump(w) /\ UNCHANGED found
     ELSE NextEntry(w, keys) /\ UNCHANGED <<at, past>>
  /\ UNCHANGED <<tables, sent, req, todo, err, pack, entered, quiet, answers, dump, cut>>

\* _snp4_table_get_by_response: all actions in turn.  Any call of the driver may fail,
\* and with a mask that it does not take get_by_response does.
GetByResponse(w) ==
  LET t    == OfInfo(w)
      done == cursor[w].action > Len(Actions(t))
  IN
  /\ pc[w] = "walk"
  /\ \/ done /\ EndDump(w) /\ UNCHANGED <<found, cut>>
     \/ (~done \/ cursor[w] = Start) /\ CutDump(w) /\ UNCHANGED found
     \/ /\ ~done
        /\ TableInfo[t].mode \notin NoMask \ WalkNoMask
        /\ NextEntry(w, Entries(Content(w), Actions(t)[cursor[w].action]))
        /\ UNCHANGED <<at, past, cut>>
  /\ UNCHANGED <<tables, sent, req, todo, err, pack, entered, quiet, answers, dump>>

\* _snp4_table_for_each_entry: a second call for what the entry does; when that fails,
\* as it does if the entry is not there any more, the walk is over.  A line has the
\* action by its number; the text for it, or for its want, is left out.
GetByKey(w) ==
  /\ pc[w] = "lookup"
  /\ found' = [found EXCEPT ![w] = Idle]
  /\ \/ /\ found[w] \in DOMAIN Content(w)
        /\ dump' = [dump EXCEPT ![w][OfInfo(w)] =
                       Append(@, <<found[w], Content(w)[found[w]]>>)]
        /\ pc' = [pc EXCEPT ![w] = "walk"]
        /\ UNCHANGED <<at, past, cursor, cut>>
     \/ CutDump(w) /\ UNCHANGED dump
  /\ UNCHANGED <<tables, sent, req, todo, err, pack, entered, quiet, answers>>

InfoDone(w) ==
  /\ pc[w] = "info"
  /\ at[w] > Len(TableList)
  /\ pc' = [pc EXCEPT ![w] = "respond"]
  /\ UNCHANGED <<tables, sent, req, todo, at, err, pack, entered, quiet, past, answers,
                 walkVars>>

Next ==
  \E w \in Worker :
    \/ Begin(w) \/ Refuse(w) \/ EnterPipeline(w) \/ WriteResponse(w) \/ Finish(w)
    \/ LoadRule(w) \/ PackRule(w) \/ CallDriver(w) \/ RulesDone(w)
    \/ ResetTable(w) \/ TablesDone(w)
    \/ BeginDump(w) \/ GetByResponse(w) \/ GetByKey(w) \/ InfoDone(w)

Spec == Init /\ [][Next]_vars

-----------------------------------------------------------------------------
(* Types.                                                                  *)

Places == [dev : Int, pipe : Int,
           code : {"OK", "INVALID_DEVICE_ID", "INVALID_PIPELINE_ID"}]

\* A table as the driver keeps it: each entry has an action of the table.
IsTable(t, table) ==
  /\ table = [k \in DOMAIN table |-> table[k]]
  /\ IsFiniteSet(DOMAIN table)
  /\ \A k \in DOMAIN table : table[k][1] \in DOMAIN TableInfo[t].actions

\* What a worker keeps of the request that it serves.
Typed(w) ==
  /\ pc[w] \in {"idle", "loop", "rule", "pack", "driver", "clear", "info", "walk",
                "lookup", "respond"}
  /\ pc[w] # "idle" => req[w] \in Request[w]
  /\ todo[w] \in Seq(Places)
  /\ at[w] \in Nat \ {0}
  /\ pack[w] \in [{"key", "mask", "params"} -> {"null", "live", "freed", "freed_twice"}]
  /\ quiet[w] \in BOOLEAN
  /\ IsList(answers[w])
  /\ cursor[w] \in [action : Nat \ {0}, position : Nat]
  /\ cut[w] \subseteq DOMAIN TableInfo /\ DOMAIN dump[w] \subseteq DOMAIN TableInfo
  /\ \A t \in DOMAIN dump[w] : IsList(dump[w][t])

\* The tables of each pipeline, and a place of its own for each worker.
TypeOK ==
  /\ DOMAIN tables = Pipe
  /\ \A p \in Pipe : /\ DOMAIN tables[p] = DOMAIN TableInfo
                     /\ \A t \in DOMAIN TableInfo : IsTable(t, tables[p][t])
  /\ sent \in Nat
  /\ DOMAIN req = Worker /\ DOMAIN todo = Worker /\ DOMAIN pc = Worker
  /\ DOMAIN at = Worker /\ DOMAIN err = Worker /\ DOMAIN pack = Worker
  /\ DOMAIN entered = Worker /\ DOMAIN quiet = Worker /\ DOMAIN past = Worker
  /\ DOMAIN answers = Worker
  /\ DOMAIN cursor = Worker /\ DOMAIN found = Worker
  /\ DOMAIN dump = Worker /\ DOMAIN cut = Worker
  /\ \A w \in Worker : Typed(w)
=============================================================================
