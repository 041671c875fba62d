------------------------------ MODULE ModuleRpc ------------------------------
(***************************************************************************)
(* The RPCs on pluggable modules (sn-cfg/src/agent/module.cpp), for the    *)
(* modules of one device.                                                  *)
(*                                                                         *)
(* Each RPC is a sequence of calls on the card management, atomic here as  *)
(* CmsMailbox justifies: a call that succeeds is in force when it returns. *)
(* One that fails may have had its effect, or have it later, until another *)
(* call gets the firmware's attention.  RPCs of other threads come between *)
(* the calls of one, and a module may be pulled out.                       *)
(*                                                                         *)
(* Sizes are scaled down: a page of memory has PageSize bytes for 128, and *)
(* a uint8_t counts modulo 2 * PageSize for 256.                           *)
(***************************************************************************)
EXTENDS Integers, Sequences

CONSTANTS
  Thread,    \* the threads that serve RPCs; each serves one
  NoThread,  \* wrote none of the bytes a module came with
  NModules,  \* dev->nports
  Page,      \* the indices of upper pages
  PageSize,  \* CMS_MODULE_PAGE_SIZE
  Load       \* the requests that may come together, one for each thread

Module == 0 .. NModules - 1
Width  == 2 * PageSize   \* of a uint8_t
Line   == {"reset", "low_power_mode"}
State  == {"unknown", "assert", "deassert"}   \* ModuleGpioState

Request ==
  [op : {"get_gpio", "set_gpio", "get_mem", "set_mem", "get_info", "get_status"},
   mod : -1 .. NModules, offset : 0 .. Width, page : Page \cup {Width},
   count : 0 .. Width + 1, gpio : [Line -> State]]

ASSUME ModuleRpcAssumption ==
  /\ NModules \in Nat \ {0}
  /\ PageSize \in Nat \ {0, 1}
  /\ 0 \in Page /\ Page \subseteq 0 .. Width - 1
  /\ NoThread \notin Thread
  /\ \A load \in Load : load \in [Thread -> Request]

\* A byte of a module's memory: its offset, and the page if it is an upper one.
Address(offset, page) == <<offset, IF offset < PageSize THEN 0 ELSE page>>
Memory == {Address(o, p) : o \in 0 .. Width - 1, p \in Page}

VARIABLES
  present,  \* the modules that are plugged in
  gpio,     \* gpio[m]: which lines of m are asserted
  memory,   \* memory[m]: who wrote each byte
  late,     \* a write that failed and may still be performed
  pc,       \* pc[t]: where thread t is
  req,      \* req[t]: the request it serves
  mod,      \* mod[t]: the loop variable mod_id
  at,       \* at[t]: the variables of the loop inside
  data,     \* data[t]: the bytes read so far
  lines,    \* lines[t]: cms_gpio.qsfp as read and modified
  out       \* out[t]: the responses written

cardVars == <<present, gpio, memory, late>>
vars == <<cardVars, pc, req, mod, at, data, lines, out>>

None == [upper |-> FALSE, page_offset |-> 0, data_count |-> 0, data_offset |-> 0]

TypeOK ==
  /\ present \subseteq Module
  /\ gpio \in [Module -> SUBSET Line]
  /\ memory \in [Module -> [Memory -> Thread \cup {NoThread}]]
  /\ \A w \in late : w.mod \in Module /\ w.kind \in {"byte", "gpio"}
  /\ pc \in [Thread -> {"idle", "present", "page", "byte", "write", "info",
                        "gpio", "gpio_write", "done"}]
  /\ req \in [Thread -> Request]
  /\ mod \in [Thread -> 0 .. NModules]
  /\ at \in [Thread -> [upper : BOOLEAN, page_offset : 0 .. Width - 1,
                        data_count : 0 .. Width - 1, data_offset : 0 .. Width]]
  /\ \A t \in Thread : DOMAIN data[t] \subseteq 0 .. Width - 1
  /\ lines \in [Thread -> SUBSET Line]

\* Every module is plugged in, with lines as its last user left them.
Init ==
  /\ present = Module
  /\ gpio   \in [Module -> SUBSET Line]
  /\ memory = [m \in Module |-> [a \in Memory |-> NoThread]]
  /\ late   = {}
  /\ pc     = [t \in Thread |-> "idle"]
  /\ req    \in Load
  /\ mod    = [t \in Thread |-> 0]
  /\ at     = [t \in Thread |-> None]
  /\ data   = [t \in Thread |-> [n \in {} |-> 0]]
  /\ lines  = [t \in Thread |-> {}]
  /\ out    = [t \in Thread |-> <<>>]

-----------------------------------------------------------------------------
(* The card management: libopennic/src/cms.c, see CmsMailbox *)

\* A call that succeeds was performed after any late write; one that fails
\* may have found the firmware still busy with it.
Succeeds == late' = {}
Fails    == late' \in {late, {}}

\* What the write w does.
Effect(w) ==
  /\ memory' = IF w.kind = "byte" THEN [memory EXCEPT ![w.mod][w.address] = w.by]
               ELSE memory
  /\ gpio' = IF w.kind = "gpio" THEN [gpio EXCEPT ![w.mod] = w.lines] ELSE gpio

\* A write of thread t, and whether it succeeds.
Written(w, ok) ==
  IF ok THEN Effect(w) /\ Succeeds
  ELSE \/ Effect(w) /\ late' = {}
       \/ UNCHANGED <<memory, gpio>> /\ (Fails \/ late' = {w})

\* The firmware performs a write after its caller has given up.
Land ==
  /\ \E w \in late : Effect(w)
  /\ late' = {}
  /\ UNCHANGED <<present, pc, req, mod, at, data, lines, out>>

\* A module is pulled out: its memory can no longer be read.
Unplug(m) ==
  /\ m \in present
  /\ present' = present \ {m}
  /\ UNCHANGED <<gpio, memory, late, pc, req, mod, at, data, lines, out>>

-----------------------------------------------------------------------------
(* The loop over the modules of a request *)

IsRange(r) == r.mod = -1

LastMod(r) == IF IsRange(r) THEN NModules - 1 ELSE r.mod

\* What count the loop goes by: a page where a read leaves it out.
Count(r)   == IF r.op = "get_mem" /\ r.count < 1 THEN PageSize ELSE r.count

\* What the checks before the loop say of a request.
Verdict(r) ==
  LET InMem == r.op \in {"get_mem", "set_mem"}
  IN  IF r.mod > NModules - 1 THEN "EC_INVALID_MODULE_ID"
      ELSE IF InMem /\ r.offset > Width - 1 THEN "EC_INVALID_MODULE_MEM_OFFSET"
      ELSE IF InMem /\ r.page > Width - 1 THEN "EC_INVALID_MODULE_MEM_PAGE"
      ELSE IF /\ InMem /\ ~(r.op = "get_mem" /\ r.count < 1)
              /\ r.count > Width - 1 - r.offset + 1
           THEN "EC_INVALID_MODULE_MEM_COUNT"
      ELSE "EC_OK"

\* The handlers of the GPIO do not ask whether the module is present.
FirstStep(op) == IF op \in {"get_gpio", "set_gpio"} THEN "gpio" ELSE "present"

\* The request arrives and is checked, or refused with one response.
Serve(t) ==
  /\ pc[t] = "idle"
  /\ LET r == req[t]
         v == Verdict(r)
     IN  IF v = "EC_OK"
         THEN /\ mod' = [mod EXCEPT ![t] = IF IsRange(r) THEN 0 ELSE r.mod]
              /\ pc'  = [pc EXCEPT ![t] = FirstStep(r.op)]
              /\ UNCHANGED out
         ELSE /\ out' = [out EXCEPT ![t] = <<[error_code |-> v]>>]
              /\ pc'  = [pc EXCEPT ![t] = "done"]
              /\ UNCHANGED mod
  /\ UNCHANGED <<cardVars, req, at, data, lines>>

\* The next module of the range.
NextModule(t) ==
  /\ mod' = [mod EXCEPT ![t] = @ + 1]
  /\ pc'  = [pc EXCEPT ![t] = IF mod[t] < LastMod(req[t])
                              THEN FirstStep(req[t].op) ELSE "done"]

\* A response about mod[t] is written.  get_module_status has EC_OK for every
\* cause.
Respond(t, cause, read) ==
  /\ out' = [out EXCEPT ![t] = Append(@,
       [error_code |-> IF req[t].op = "get_status" THEN "EC_OK" ELSE cause,
        mod_id |-> mod[t], data |-> read])]
  /\ NextModule(t)

Nothing == <<>>

\* check_module_present: absent modules of a range are passed over.
CheckPresent(t) ==
  LET m == mod[t]
      r == req[t]
      Absent(cause) == IF IsRange(r) THEN NextModule(t) /\ UNCHANGED out
                       ELSE Respond(t, cause, Nothing)
      first == r.offset % PageSize
      left  == PageSize - first
  IN
  /\ pc[t] = "present"
  /\ \/ Fails /\ Absent("EC_MODULE_GPIO_READ_FAILED") /\ UNCHANGED at
     \/ /\ Succeeds
        /\ m \notin present \/ "reset" \in gpio[m]
        /\ Absent("EC_MODULE_NOT_PRESENT") /\ UNCHANGED at
     \/ /\ Succeeds
        /\ m \in present /\ "reset" \notin gpio[m]
        /\ IF r.op = "get_status" \/ (r.op = "set_mem" /\ r.count = 0)
           THEN Respond(t, "EC_OK", Nothing)
           ELSE /\ pc' = [pc EXCEPT ![t] =
                           CASE r.op = "set_mem"  -> "write"
                             [] r.op = "get_info" -> "info"
                             [] OTHER -> IF Count(r) > 1 THEN "page" ELSE "byte"]
                /\ UNCHANGED <<mod, out>>
        /\ at' = [at EXCEPT ![t] =
             [upper |-> r.op = "get_mem" /\ r.offset >= PageSize,
              page_offset |-> first,
              data_count  |-> IF Count(r) < left THEN Count(r) ELSE left,
              data_offset |-> 0]]
  /\ data' = [data EXCEPT ![t] = [n \in {} |-> 0]]
  /\ UNCHANGED <<present, gpio, memory, req, lines>>

-----------------------------------------------------------------------------
(* get_module_mem *)

\* The byte of the module at an address.
ByteAt(m, a) == <<m, a, memory[m][a]>>

\* Fault: the second page is read from where the first one was.
ReadPage_KeepsOffset(t) ==
  LET r == req[t]
      i == at[t]
      Source(n) == Address(n - i.data_offset + i.page_offset
                             + (IF i.upper THEN PageSize ELSE 0), r.page)
      got == [n \in DOMAIN data[t] \cup i.data_offset .. i.data_offset + i.data_count - 1 |->
                IF n >= i.data_offset THEN ByteAt(mod[t], Source(n)) ELSE data[t][n]]
      next == (i.data_offset + i.data_count) % Width
      more == (Count(r) - next) % Width
  IN
  /\ pc[t] = "page"
  /\ Succeeds /\ mod[t] \in present
  /\ data' = [data EXCEPT ![t] = got]
  /\ at'   = [at EXCEPT ![t].upper = TRUE, ![t].data_count = more,
                         ![t].data_offset = next]
  /\ IF more > 0 THEN UNCHANGED <<mod, pc, out>> ELSE Respond(t, "EC_OK", got)
  /\ UNCHANGED <<present, gpio, memory, req, lines>>

\* cms_module_page_read and the memcpy of the part asked for; uint8_t
\* variables wrap.  The page index counts only for an upper page.
ReadPage(t) ==
  LET r == req[t]
      i == at[t]
      Source(n) == Address(n - i.data_offset + i.page_offset
                             + (IF i.upper THEN PageSize ELSE 0), r.page)
      got == [n \in DOMAIN data[t] \cup i.data_offset .. i.data_offset + i.data_count - 1 |->
                IF n >= i.data_offset THEN ByteAt(mod[t], Source(n)) ELSE data[t][n]]
      next == (i.data_offset + i.data_count) % Width
      more == (Count(r) - next) % Width
  IN
  /\ pc[t] = "page"
  /\ \/ Fails /\ Respond(t, "EC_MODULE_PAGE_READ_FAILED", Nothing)
        /\ UNCHANGED <<at, data>>
     \/ /\ Succeeds /\ mod[t] \in present
        /\ data' = [data EXCEPT ![t] = got]
        /\ at'   = [at EXCEPT ![t] = [upper |-> TRUE, page_offset |-> 0,
                                      data_count |-> more, data_offset |-> next]]
        /\ IF more > 0 THEN UNCHANGED <<mod, pc, out>> ELSE Respond(t, "EC_OK", got)
  /\ UNCHANGED <<present, gpio, memory, req, lines>>

\* cms_module_byte_read.
ReadByte(t) ==
  LET a == Address(req[t].offset, req[t].page) IN
  /\ pc[t] = "byte"
  /\ \/ Fails /\ Respond(t, "EC_MODULE_MEM_READ_FAILED", Nothing)
     \/ /\ Succeeds /\ mod[t] \in present
        /\ Respond(t, "EC_OK", [n \in {0} |-> ByteAt(mod[t], a)])
  /\ UNCHANGED <<present, gpio, memory, req, at, data, lines>>

-----------------------------------------------------------------------------
(* set_module_mem: byte by byte, until one fails *)

\* Fault: goes on after a byte that failed.
WriteByte_GoesOn(t) ==
  LET b == at[t].data_offset
      w == [kind |-> "byte", mod |-> mod[t], by |-> t,
            address |-> Address(req[t].offset + b, req[t].page)]
  IN
  /\ pc[t] = "write"
  /\ mod[t] \in present
  /\ Written(w, TRUE) \/ Written(w, FALSE)
  /\ at' = [at EXCEPT ![t].data_offset = b + 1]
  /\ IF b + 1 < req[t].count THEN UNCHANGED <<mod, pc, out>>
     ELSE Respond(t, "EC_OK", Nothing)
  /\ UNCHANGED <<present, req, data, lines>>

WriteByte(t) ==
  LET b == at[t].data_offset
      w == [kind |-> "byte", mod |-> mod[t], by |-> t,
            address |-> Address(req[t].offset + b, req[t].page)]
  IN
  /\ pc[t] = "write"
  /\ \/ Written(w, FALSE) /\ Respond(t, "EC_MODULE_MEM_WRITE_FAILED", Nothing)
        /\ UNCHANGED at
     \/ /\ mod[t] \in present /\ Written(w, TRUE)
        /\ at' = [at EXCEPT ![t].data_offset = b + 1]
        /\ IF b + 1 < req[t].count THEN UNCHANGED <<mod, pc, out>>
           ELSE Respond(t, "EC_OK", Nothing)
  /\ UNCHANGED <<present, req, data, lines>>

-----------------------------------------------------------------------------
(* get_module_info: the lower page, upper page 0 and upper page 2 if the    *)
(* module has it, counted in data_offset                                    *)

ReadInfoPage(t) ==
  LET n == at[t].data_offset IN
  /\ pc[t] = "info"
  /\ \/ Fails /\ Respond(t, "EC_MODULE_PAGE_READ_FAILED", Nothing)
        /\ UNCHANGED at
     \/ /\ Succeeds /\ mod[t] \in present
        /\ at' = [at EXCEPT ![t].data_offset = n + 1]
        /\ \/ n < 2 /\ UNCHANGED <<mod, pc, out>>
           \/ n > 0 /\ Respond(t, "EC_OK", Nothing)
  /\ UNCHANGED <<present, gpio, memory, req, data, lines>>

-----------------------------------------------------------------------------
(* get_module_gpio and set_module_gpio *)

\* Fault: a line whose state is unknown is deasserted.
Modified_Deasserts(read, wanted) == {l \in Line : wanted[l] = "assert"}

\* bool_if_has_gpio_state: a line whose state is unknown is left as it was read.
Modified(read, wanted) ==
  {l \in Line : wanted[l] = "assert" \/ (wanted[l] = "unknown" /\ l \in read)}

\* cms_module_gpio_read under the mutex of the cms (the lines a get returns are
\* not modelled) ...
ReadGpio(t) ==
  LET m == mod[t] IN
  /\ pc[t] = "gpio"
  /\ \/ Fails /\ Respond(t, "EC_MODULE_GPIO_READ_FAILED", Nothing)
        /\ UNCHANGED lines
     \/ /\ Succeeds
        /\ IF req[t].op = "get_gpio"
           THEN Respond(t, "EC_OK", Nothing) /\ UNCHANGED lines
           ELSE /\ lines' = [lines EXCEPT ![t] = Modified(gpio[m], req[t].gpio)]
                /\ pc' = [pc EXCEPT ![t] = "gpio_write"]
                /\ UNCHANGED <<mod, out>>
  /\ UNCHANGED <<present, gpio, memory, req, at, data>>

\* ... and cms_module_gpio_write under the mutex taken again.
WriteGpio(t) ==
  LET w == [kind |-> "gpio", mod |-> mod[t], by |-> t, lines |-> lines[t]] IN
  /\ pc[t] = "gpio_write"
  /\ \/ Written(w, FALSE) /\ Respond(t, "EC_MODULE_GPIO_WRITE_FAILED", Nothing)
     \/ Written(w, TRUE) /\ Respond(t, "EC_OK", Nothing)
  /\ UNCHANGED <<present, req, at, data, lines>>

-----------------------------------------------------------------------------

Rpc(t) == \/ Serve(t) \/ CheckPresent(t) \/ ReadPage(t) \/ ReadByte(t)
          \/ WriteByte(t) \/ ReadInfoPage(t) \/ ReadGpio(t) \/ WriteGpio(t)

Next == \/ \E t \in Thread : Rpc(t)
        \/ \E m \in Module : Unplug(m)
        \/ Land

Spec == Init /\ [][Next]_vars

-----------------------------------------------------------------------------
(* Properties *)

Responses(t) == {out[t][n] : n \in 1 .. Len(out[t])}
Answered(t)  == {r \in Responses(t) : r.error_code = "EC_OK"}

\* A successful read of memory returns exactly the bytes asked for, from the
\* module asked for: across the border of the pages, at the top of the
\* memory, and where the uint8_t offsets wrap.
AnswersTheBytesAsked ==
  \A t \in Thread : req[t].op = "get_mem" /\ req[t].offset + Count(req[t]) <= Width =>
    \A r \in Answered(t) :
      /\ DOMAIN r.data = 0 .. Count(req[t]) - 1
      /\ \A n \in DOMAIN r.data :
           /\ r.data[n][1] = r.mod_id
           /\ r.data[n][2] = Address(req[t].offset + n, req[t].page)

\* "Must not exceed 256 bytes (offset + count <= 256)": what is returned lies
\* in the 256 bytes of the memory.
ReadStaysInMemory ==
  \A t \in Thread : req[t].op = "get_mem" =>
    \A r \in Answered(t) : \A n \in DOMAIN r.data : req[t].offset + n < Width

\* set_module_mem touches nothing but what it was given, from the front: a
\* byte is written only when all before it are, also when the writes of other
\* threads overlap, and when it says EC_OK all are.  A failure leaves the
\* front part written.
WritesFromTheFront ==
  \A t \in Thread : \A m \in Module :
    LET r == req[t]
        asked(n) == Address(r.offset + n, r.page)
        Changed(a) == memory[m][a] # NoThread
    IN  /\ \A a \in Memory : memory[m][a] = t =>
             /\ r.op = "set_mem" /\ r.mod \in {-1, m}
             /\ \E n \in 0 .. r.count - 1 :
                  a = asked(n) /\ \A k \in 0 .. n : Changed(asked(k))
        /\ r.op = "set_mem" =>
             \A s \in Answered(t) : s.mod_id = m =>
               \A n \in 0 .. r.count - 1 : Changed(asked(n))

\* A line of a module changes only if some request for it names the line,
\* however the read-modify-writes of the threads and the late writes mix.
NoLineIsInvented ==
  [][\A m \in Module, l \in Line :
       (l \in gpio[m]) # (l \in gpio'[m]) =>
         \E t \in Thread : /\ req[t].op = "set_gpio"
                          /\ req[t].mod \in {-1, m}
                          /\ req[t].gpio[l] # "unknown"
    ]_vars
=============================================================================
