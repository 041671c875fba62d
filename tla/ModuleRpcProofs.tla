-------------------------- MODULE ModuleRpcProofs --------------------------
(***************************************************************************)
(* For any number of modules, threads and pages, any size of a page and    *)
(* whatever requests come together: a read returns the bytes asked for,    *)
(* writes go from the front, and no line changes that nobody named, though *)
(* a write that failed may be performed later.                             *)
(***************************************************************************)
EXTENDS ModuleRpc, SequenceTheorems, TLAPS

-----------------------------------------------------------------------------
(* The uint8_t arithmetic.                                                 *)

LEMMA Sizes ==
  /\ PageSize \in Nat /\ PageSize > 1 /\ Width \in Nat /\ Width = PageSize + PageSize
  /\ Width > 3 /\ 0 < Width /\ NModules \in Nat /\ 0 < NModules
BY ModuleRpcAssumption DEF Width

LEMMA ModRange ==
  ASSUME NEW p \in Nat \ {0}, NEW x \in Int
  PROVE  x % p \in 0 .. p - 1
OBVIOUS

LEMMA ModBelow ==
  ASSUME NEW p \in Nat \ {0}, NEW x \in 0 .. p - 1
  PROVE  x % p = x
OBVIOUS

LEMMA ModAbove ==
  ASSUME NEW p \in Nat \ {0}, NEW x \in p .. 2 * p - 1
  PROVE  x % p = x - p
OBVIOUS

LEMMA ModSelf ==
  ASSUME NEW p \in Nat \ {0}
  PROVE  p % p = 0
OBVIOUS

-----------------------------------------------------------------------------
(* Types, and where a thread is.                                           *)

Step == {"present", "page", "byte", "write", "info", "gpio", "gpio_write"}

\* A write is one of a request for the module, by the thread that serves it.
WriteOf(w) ==
  /\ w.by \in Thread /\ w.mod \in Module /\ req[w.by].mod \in {-1, w.mod}
  /\ \/ /\ w.kind = "byte" /\ w.address \in Memory /\ req[w.by].op = "set_mem"
     \/ /\ w.kind = "gpio" /\ w.lines \in SUBSET Line /\ req[w.by].op = "set_gpio"

TypeInv ==
  /\ present \subseteq Module
  /\ gpio \in [Module -> SUBSET Line]
  /\ memory \in [Module -> [Memory -> Thread \cup {NoThread}]]
  /\ \A w \in late : WriteOf(w)
  /\ pc \in [Thread -> Step \cup {"idle", "done"}]
  /\ req \in [Thread -> Request]
  /\ mod \in [Thread -> 0 .. NModules]
  /\ at \in [Thread -> [upper : BOOLEAN, page_offset : 0 .. Width - 1,
                        data_count : 0 .. Width - 1, data_offset : 0 .. Width]]
  /\ data = [t \in Thread |-> data[t]]
  /\ lines \in [Thread -> SUBSET Line]
  /\ DOMAIN out = Thread
  /\ \A t \in Thread : out[t] \in Seq(Responses(t))

\* What a thread is about, when it serves a request.
Place(t) ==
  LET r == req[t]
      i == at[t]
  IN  pc[t] \in Step =>
        /\ mod[t] \in Module /\ r.mod \in {-1, mod[t]} /\ Verdict(r) = "EC_OK"
        /\ pc[t] = "present" => r.op \in {"get_mem", "set_mem", "get_info", "get_status"}
        /\ pc[t] \in {"page", "byte"} => r.op = "get_mem"
        /\ pc[t] = "page" => Count(r) > 1
        /\ pc[t] = "byte" => Count(r) = 1
        /\ pc[t] = "write" => r.op = "set_mem" /\ i.data_offset < r.count
        /\ pc[t] = "info" => r.op = "get_info" /\ i.data_offset <= 2
        /\ pc[t] = "gpio" => r.op \in {"get_gpio", "set_gpio"}
        /\ pc[t] = "gpio_write" => r.op = "set_gpio"

PlaceInv == \A t \in Thread : Place(t)

-----------------------------------------------------------------------------
(* A read: the bytes so far are the first ones asked for, and what is read  *)
(* next are the bytes that follow, of one page.                             *)

First(r) == r.offset % PageSize
Left(r)  == PageSize - First(r)

\* All bytes asked for lie in the memory.
Inside(r) == r.offset + Count(r) <= Width

\* The bytes d are those asked for from module m, as far as they go.
AsAsked(r, m, d) ==
  Inside(r) => \A n \in DOMAIN d : /\ d[n][1] = m
                                   /\ d[n][2] = Address(r.offset + n, r.page)

AtFirstPage(r, i) ==
  /\ i.upper = (r.offset >= PageSize)
  /\ i.page_offset = First(r)
  /\ i.data_offset = 0
  /\ i.data_count = IF Count(r) < Left(r) THEN Count(r) ELSE Left(r)

AtSecondPage(r, i) ==
  /\ i.upper = TRUE
  /\ i.page_offset = 0
  /\ i.data_offset = Left(r)
  /\ Left(r) < Count(r)
  /\ i.data_count = Count(r) - Left(r)

Reading(t) ==
  /\ DOMAIN data[t] \subseteq 0 .. Width - 1
  /\ pc[t] = "page" =>
       /\ AtFirstPage(req[t], at[t]) \/ AtSecondPage(req[t], at[t])
       /\ DOMAIN data[t] = 0 .. at[t].data_offset - 1
       /\ AsAsked(req[t], mod[t], data[t])

ReadInv == \A t \in Thread : Reading(t)

\* A successful answer of a read.
ReadAnswer(t, r) ==
  req[t].op = "get_mem" /\ r.error_code = "EC_OK" =>
    /\ DOMAIN r.data = 0 .. Count(req[t]) - 1
    /\ AsAsked(req[t], r.mod_id, r.data)

AnswersInv == \A t \in Thread : \A r \in Responses(t) : ReadAnswer(t, r)

-----------------------------------------------------------------------------
(* A write: all bytes in front of the next one are written, and so are      *)
(* those in front of a write that is late.                                  *)

Asked(t, n)   == Address(req[t].offset + n, req[t].page)
Changed(m, a) == memory[m][a] # NoThread

\* What t asks for is memory, to the last byte.
Fits(t) == req[t].page \in Page /\ req[t].offset + req[t].count <= Width

\* The bytes of t's request in front of its n-th are written.
WrittenTo(t, m, n) == \A k \in 0 .. n - 1 : Changed(m, Asked(t, k))

\* Address a is what t may write next of module m, given what is written.
MayWrite(t, m, a) ==
  \E n \in 0 .. req[t].count - 1 : a = Asked(t, n) /\ WrittenTo(t, m, n)

FrontInv ==
  /\ \A t \in Thread : pc[t] = "write" => WrittenTo(t, mod[t], at[t].data_offset)
  /\ \A w \in late : w.kind = "byte" => MayWrite(w.by, w.mod, w.address)
  /\ \A t \in Thread, m \in Module, a \in Memory : memory[m][a] = t =>
       /\ req[t].op = "set_mem" /\ req[t].mod \in {-1, m}
       /\ MayWrite(t, m, a)
  /\ \A t \in Thread : \A s \in Responses(t) :
       req[t].op = "set_mem" /\ s.error_code = "EC_OK" =>
         /\ s.mod_id \in Module /\ Fits(t)
         /\ WrittenTo(t, s.mod_id, req[t].count)

-----------------------------------------------------------------------------
(* A read-modify-write of the lines: what is to be written of a line that   *)
(* no request names is what it is.                                          *)

\* Some request for module m names line l.
Named(m, l) ==
  \E t \in Thread : /\ req[t].op = "set_gpio" /\ req[t].mod \in {-1, m}
                    /\ req[t].gpio[l] # "unknown"

\* The lines s of module m are the present ones, but for those named.
Keeps(m, s) == \A l \in Line : ~Named(m, l) => (l \in s <=> l \in gpio[m])

LinesInv ==
  /\ \A t \in Thread : pc[t] = "gpio_write" => Keeps(mod[t], lines[t])
  /\ \A w \in late : w.kind = "gpio" => Keeps(w.mod, w.lines)

-----------------------------------------------------------------------------
(* Requests that are served, and the responses to them.                     *)

LEMMA RequestFacts ==
  ASSUME NEW r \in Request
  PROVE  /\ r.mod \in -1 .. NModules /\ r.offset \in 0 .. Width
         /\ r.page \in Page \cup {Width}
         /\ r.count \in 0 .. Width + 1 /\ r.gpio \in [Line -> State]
         /\ r.op \in {"get_gpio", "set_gpio", "get_mem", "set_mem", "get_info",
                      "get_status"}
         /\ Count(r) \in 0 .. Width + 1
BY Sizes DEF Request, Count

\* What the checks before the loop establish.
LEMMA VerdictFacts ==
  ASSUME NEW r \in Request, Verdict(r) = "EC_OK"
  PROVE  /\ r.mod <= NModules - 1
         /\ r.op \in {"get_mem", "set_mem"} => r.offset \in 0 .. Width - 1 /\ r.page \in Page
         /\ r.op = "set_mem" => r.offset + r.count <= Width
         /\ r.op = "get_mem" => Count(r) \in 1 .. Width
<1>1. /\ r.mod \in Int /\ r.offset \in 0 .. Width /\ r.count \in 0 .. Width + 1
  BY RequestFacts, Sizes
<1>2. ~(r.mod > NModules - 1)
  BY DEF Verdict
<1>3. r.op \in {"get_mem", "set_mem"} => ~(r.offset > Width - 1) /\ ~(r.page > Width - 1)
  BY DEF Verdict
<1>4. /\ r.op \in {"get_mem", "set_mem"} /\ ~(r.op = "get_mem" /\ r.count < 1)
      => ~(r.count > Width - 1 - r.offset + 1)
  BY DEF Verdict
<1>5. r.op = "get_mem" => Count(r) \in 1 .. Width
  BY <1>1, <1>3, <1>4, Sizes DEF Count
<1>6. r.op = "set_mem" => r.offset + r.count <= Width
  BY <1>1, <1>3, <1>4, Sizes
<1>7. r.op \in {"get_mem", "set_mem"} => r.page \in Page
  BY <1>3, RequestFacts, Sizes
<1> QED
  BY <1>1, <1>2, <1>3, <1>5, <1>6, <1>7, Sizes

\* Writing a response adds it to those written.
LEMMA AppendAdds ==
  ASSUME NEW s, NEW e, s \in Seq({s[n] : n \in 1 .. Len(s)})
  PROVE  LET q == Append(s, e)
         IN  /\ {q[n] : n \in 1 .. Len(q)} = {s[n] : n \in 1 .. Len(s)} \cup {e}
             /\ q \in Seq({q[n] : n \in 1 .. Len(q)})
<1> DEFINE R == {s[n] : n \in 1 .. Len(s)}
           q == Append(s, e)
           Q == {q[n] : n \in 1 .. Len(q)}
<1>1. s \in Seq(R \cup {e})
  <2>1. Len(s) \in Nat /\ s \in [1 .. Len(s) -> R]
    BY LenProperties
  <2>2. s \in [1 .. Len(s) -> R \cup {e}]
    BY <2>1
  <2> QED
    BY <2>1, <2>2
<1>2. /\ q \in Seq(R \cup {e}) /\ Len(q) = Len(s) + 1
      /\ \A i \in 1 .. Len(s) : q[i] = s[i]
      /\ q[Len(s) + 1] = e
  BY <1>1, AppendProperties
<1>3. Len(s) \in Nat
  BY <1>1, LenProperties
<1>4. Q = R \cup {e}
  <2>1. \A n \in 1 .. Len(q) : n \in 1 .. Len(s) \/ n = Len(s) + 1
    BY <1>2, <1>3
  <2>2. Len(s) + 1 \in 1 .. Len(q) /\ \A n \in 1 .. Len(s) : n \in 1 .. Len(q)
    BY <1>2, <1>3
  <2>3. Q \subseteq R \cup {e}
    BY <1>2, <2>1
  <2>4. R \subseteq Q
    BY <1>2, <2>2
  <2>5. e \in Q
    BY <1>2, <2>2
  <2> QED
    BY <2>3, <2>4, <2>5
<1> QED
  BY <1>2, <1>4

-----------------------------------------------------------------------------
(* Init.                                                                   *)

LEMMA TypeInit == Init => TypeInv /\ PlaceInv
<1> SUFFICES ASSUME Init PROVE TypeInv /\ PlaceInv
  OBVIOUS
<1>1. req \in [Thread -> Request]
  BY ModuleRpcAssumption DEF Init
<1>2. None \in [upper : BOOLEAN, page_offset : 0 .. Width - 1,
                data_count : 0 .. Width - 1, data_offset : 0 .. Width]
  BY Sizes DEF None
<1>3. 0 \in 0 .. NModules
  BY Sizes
<1>4. \A t \in Thread : out[t] \in Seq(Responses(t))
  BY EmptySeq DEF Init, Responses
<1>5. TypeInv
  BY <1>1, <1>2, <1>3, <1>4 DEF Init, TypeInv, Step
<1>6. PlaceInv
  BY DEF Init, PlaceInv, Place, Step
<1> QED
  BY <1>5, <1>6

-----------------------------------------------------------------------------
(* The steps.  A thread changes only variables of its own and, by a write,  *)
(* those of the card.                                                       *)

\* The response that Respond writes.
Answer(t, cause, read) ==
  [error_code |-> IF req[t].op = "get_status" THEN "EC_OK" ELSE cause,
   mod_id |-> mod[t], data |-> read]

\* Thread t has written nothing but the response e.
Says(t, e) ==
  /\ DOMAIN out' = Thread
  /\ \A u \in Thread \ {t} : out'[u] = out[u]
  /\ out'[t] \in Seq(Responses(t)')
  /\ Responses(t)' \subseteq Responses(t) \cup {e}

Silent(t) == UNCHANGED out

Own(t) ==
  /\ req' = req /\ present' = present
  /\ pc' = [pc EXCEPT ![t] = pc'[t]]
  /\ mod' = [mod EXCEPT ![t] = mod'[t]]
  /\ at' = [at EXCEPT ![t] = at'[t]]
  /\ data' = [data EXCEPT ![t] = data'[t]]
  /\ lines' = [lines EXCEPT ![t] = lines'[t]]

LEMMA Appended ==
  ASSUME TypeInv, NEW t \in Thread, NEW e, out' = [out EXCEPT ![t] = Append(@, e)]
  PROVE  Says(t, e)
<1>1. out[t] \in Seq({out[t][n] : n \in 1 .. Len(out[t])}) /\ DOMAIN out = Thread
  BY DEF TypeInv, Responses
<1>2. out'[t] = Append(out[t], e) /\ DOMAIN out' = Thread
  BY <1>1
<1>3. \A u \in Thread \ {t} : out'[u] = out[u]
  BY <1>1
<1> DEFINE q == Append(out[t], e)
<1>4. /\ {q[n] : n \in 1 .. Len(q)} = {out[t][n] : n \in 1 .. Len(out[t])} \cup {e}
      /\ q \in Seq({q[n] : n \in 1 .. Len(q)})
  BY <1>1, AppendAdds
<1>5. Responses(t)' = {q[n] : n \in 1 .. Len(q)}
  BY <1>2 DEF Responses
<1>6. Responses(t) = {out[t][n] : n \in 1 .. Len(out[t])}
  BY DEF Responses
<1> HIDE DEF q
<1>7. out'[t] = q
  BY <1>2 DEF q
<1> QED
  BY <1>2, <1>3, <1>4, <1>5, <1>6, <1>7 DEF Says

LEMMA Responding ==
  ASSUME TypeInv, NEW t \in Thread, NEW cause, NEW read, Respond(t, cause, read)
  PROVE  Says(t, Answer(t, cause, read)) /\ NextModule(t)
BY Appended DEF Respond, Answer

LEMMA StillSilent ==
  ASSUME TypeInv, NEW t \in Thread, UNCHANGED out
  PROVE  /\ DOMAIN out' = Thread
         /\ \A u \in Thread : out'[u] = out[u] /\ Responses(u)' = Responses(u)
         /\ \A u \in Thread : out'[u] \in Seq(Responses(u)')
<1>1. DOMAIN out = Thread /\ \A u \in Thread : out[u] \in Seq(Responses(u))
  BY DEF TypeInv
<1>2. \A u \in Thread : Responses(u)' = Responses(u)
  BY DEF Responses
<1> QED
  BY <1>1, <1>2

LEMMA OneChanged ==
  ASSUME NEW f, NEW g, NEW t \in Thread, f = [u \in Thread |-> f[u]],
         g = f \/ \E e : g = [f EXCEPT ![t] = e]
  PROVE  g = [f EXCEPT ![t] = g[t]]
OBVIOUS

LEMMA OwnFunctions ==
  ASSUME TypeInv
  PROVE  /\ pc = [u \in Thread |-> pc[u]] /\ mod = [u \in Thread |-> mod[u]]
         /\ at = [u \in Thread |-> at[u]] /\ data = [u \in Thread |-> data[u]]
         /\ lines = [u \in Thread |-> lines[u]]
BY DEF TypeInv

LEMMA OwnServe ==
  ASSUME TypeInv, NEW t \in Thread, Serve(t)
  PROVE  Own(t)
<1>1. req' = req /\ present' = present
  BY DEF Serve, cardVars
<1>2. pc' = pc \/ \E e : pc' = [pc EXCEPT ![t] = e]
  BY DEF Serve
<1>3. mod' = mod \/ \E e : mod' = [mod EXCEPT ![t] = e]
  BY DEF Serve
<1>4. at' = at \/ \E e : at' = [at EXCEPT ![t] = e]
  BY DEF Serve
<1>5. data' = data \/ \E e : data' = [data EXCEPT ![t] = e]
  BY DEF Serve
<1>6. lines' = lines \/ \E e : lines' = [lines EXCEPT ![t] = e]
  BY DEF Serve
<1> QED
  BY <1>1, <1>2, <1>3, <1>4, <1>5, <1>6, OwnFunctions, OneChanged DEF Own

LEMMA OwnCheckPresent ==
  ASSUME TypeInv, NEW t \in Thread, CheckPresent(t)
  PROVE  Own(t)
<1>1. req' = req /\ present' = present
  BY DEF CheckPresent
<1>2. pc' = pc \/ \E e : pc' = [pc EXCEPT ![t] = e]
  BY DEF CheckPresent, Respond, NextModule
<1>3. mod' = mod \/ \E e : mod' = [mod EXCEPT ![t] = e]
  BY DEF CheckPresent, Respond, NextModule
<1>4. at' = at \/ \E e : at' = [at EXCEPT ![t] = e]
  BY DEF CheckPresent, Respond, NextModule
<1>5. data' = data \/ \E e : data' = [data EXCEPT ![t] = e]
  BY DEF CheckPresent, Respond, NextModule
<1>6. lines' = lines \/ \E e : lines' = [lines EXCEPT ![t] = e]
  BY DEF CheckPresent, Respond, NextModule
<1> QED
  BY <1>1, <1>2, <1>3, <1>4, <1>5, <1>6, OwnFunctions, OneChanged DEF Own

LEMMA OwnReadPage ==
  ASSUME TypeInv, NEW t \in Thread, ReadPage(t)
  PROVE  Own(t)
<1>1. req' = req /\ present' = present
  BY DEF ReadPage
<1>2. pc' = pc \/ \E e : pc' = [pc EXCEPT ![t] = e]
  BY DEF ReadPage, Respond, NextModule
<1>3. mod' = mod \/ \E e : mod' = [mod EXCEPT ![t] = e]
  BY DEF ReadPage, Respond, NextModule
<1>4. at' = at \/ \E e : at' = [at EXCEPT ![t] = e]
  BY DEF ReadPage, Respond, NextModule
<1>5. data' = data \/ \E e : data' = [data EXCEPT ![t] = e]
  BY DEF ReadPage, Respond, NextModule
<1>6. lines' = lines \/ \E e : lines' = [lines EXCEPT ![t] = e]
  BY DEF ReadPage, Respond, NextModule
<1> QED
  BY <1>1, <1>2, <1>3, <1>4, <1>5, <1>6, OwnFunctions, OneChanged DEF Own

LEMMA OwnReadByte ==
  ASSUME TypeInv, NEW t \in Thread, ReadByte(t)
  PROVE  Own(t)
<1>1. req' = req /\ present' = present
  BY DEF ReadByte
<1>2. pc' = pc \/ \E e : pc' = [pc EXCEPT ![t] = e]
  BY DEF ReadByte, Respond, NextModule
<1>3. mod' = mod \/ \E e : mod' = [mod EXCEPT ![t] = e]
  BY DEF ReadByte, Respond, NextModule
<1>4. at' = at \/ \E e : at' = [at EXCEPT ![t] = e]
  BY DEF ReadByte, Respond, NextModule
<1>5. data' = data \/ \E e : data' = [data EXCEPT ![t] = e]
  BY DEF ReadByte, Respond, NextModule
<1>6. lines' = lines \/ \E e : lines' = [lines EXCEPT ![t] = e]
  BY DEF ReadByte, Respond, NextModule
<1> QED
  BY <1>1, <1>2, <1>3, <1>4, <1>5, <1>6, OwnFunctions, OneChanged DEF Own

LEMMA OwnWriteByte ==
  ASSUME TypeInv, NEW t \in Thread, WriteByte(t)
  PROVE  Own(t)
<1>1. req' = req /\ present' = present
  BY DEF WriteByte
<1>2. pc' = pc \/ \E e : pc' = [pc EXCEPT ![t] = e]
  BY DEF WriteByte, Respond, NextModule
<1>3. mod' = mod \/ \E e : mod' = [mod EXCEPT ![t] = e]
  BY DEF WriteByte, Respond, NextModule
<1>4. at' = at \/ \E e : at' = [at EXCEPT ![t] = e]
  BY DEF WriteByte, Respond, NextModule
<1>5. data' = data \/ \E e : data' = [data EXCEPT ![t] = e]
  BY DEF WriteByte, Respond, NextModule
<1>6. lines' = lines \/ \E e : lines' = [lines EXCEPT ![t] = e]
  BY DEF WriteByte, Respond, NextModule
<1> QED
  BY <1>1, <1>2, <1>3, <1>4, <1>5, <1>6, OwnFunctions, OneChanged DEF Own

LEMMA OwnReadInfoPage ==
  ASSUME TypeInv, NEW t \in Thread, ReadInfoPage(t)
  PROVE  Own(t)
<1>1. req' = req /\ present' = present
  BY DEF ReadInfoPage
<1>2. pc' = pc \/ \E e : pc' = [pc EXCEPT ![t] = e]
  BY DEF ReadInfoPage, Respond, NextModule
<1>3. mod' = mod \/ \E e : mod' = [mod EXCEPT ![t] = e]
  BY DEF ReadInfoPage, Respond, NextModule
<1>4. at' = at \/ \E e : at' = [at EXCEPT ![t] = e]
  BY DEF ReadInfoPage, Respond, NextModule
<1>5. data' = data \/ \E e : data' = [data EXCEPT ![t] = e]
  BY DEF ReadInfoPage, Respond, NextModule
<1>6. lines' = lines \/ \E e : lines' = [lines EXCEPT ![t] = e]
  BY DEF ReadInfoPage, Respond, NextModule
<1> QED
  BY <1>1, <1>2, <1>3, <1>4, <1>5, <1>6, OwnFunctions, OneChanged DEF Own

LEMMA OwnReadGpio ==
  ASSUME TypeInv, NEW t \in Thread, ReadGpio(t)
  PROVE  Own(t)
<1>1. req' = req /\ present' = present
  BY DEF ReadGpio
<1>2. pc' = pc \/ \E e : pc' = [pc EXCEPT ![t] = e]
  BY DEF ReadGpio, Respond, NextModule
<1>3. mod' = mod \/ \E e : mod' = [mod EXCEPT ![t] = e]
  BY DEF ReadGpio, Respond, NextModule
<1>4. at' = at \/ \E e : at' = [at EXCEPT ![t] = e]
  BY DEF ReadGpio, Respond, NextModule
<1>5. data' = data \/ \E e : data' = [data EXCEPT ![t] = e]
  BY DEF ReadGpio, Respond, NextModule
<1>6. lines' = lines \/ \E e : lines' = [lines EXCEPT ![t] = e]
  BY DEF ReadGpio, Respond, NextModule
<1> QED
  BY <1>1, <1>2, <1>3, <1>4, <1>5, <1>6, OwnFunctions, OneChanged DEF Own

LEMMA OwnWriteGpio ==
  ASSUME TypeInv, NEW t \in Thread, WriteGpio(t)
  PROVE  Own(t)
<1>1. req' = req /\ present' = present
  BY DEF WriteGpio
<1>2. pc' = pc \/ \E e : pc' = [pc EXCEPT ![t] = e]
  BY DEF WriteGpio, Respond, NextModule
<1>3. mod' = mod \/ \E e : mod' = [mod EXCEPT ![t] = e]
  BY DEF WriteGpio, Respond, NextModule
<1>4. at' = at \/ \E e : at' = [at EXCEPT ![t] = e]
  BY DEF WriteGpio, Respond, NextModule
<1>5. data' = data \/ \E e : data' = [data EXCEPT ![t] = e]
  BY DEF WriteGpio, Respond, NextModule
<1>6. lines' = lines \/ \E e : lines' = [lines EXCEPT ![t] = e]
  BY DEF WriteGpio, Respond, NextModule
<1> QED
  BY <1>1, <1>2, <1>3, <1>4, <1>5, <1>6, OwnFunctions, OneChanged DEF Own

-----------------------------------------------------------------------------
(* The card in a step: it is left alone, but for late writes given up, or   *)
(* one write is tried.                                                      *)

\* The write of thread t, where it is about to write.
ByteWrite(t) ==
  [kind |-> "byte", mod |-> mod[t], by |-> t,
   address |-> Address(req[t].offset + at[t].data_offset, req[t].page)]
GpioWrite(t) == [kind |-> "gpio", mod |-> mod[t], by |-> t, lines |-> lines[t]]

Attempt(w) ==
  \/ w \in late
  \/ \E t \in Thread : \/ pc[t] = "write" /\ w = ByteWrite(t)
                       \/ pc[t] = "gpio_write" /\ w = GpioWrite(t)

\* The write w is tried: performed, or not, or left for later.
Tried(w) ==
  /\ Effect(w) \/ UNCHANGED <<memory, gpio>>
  /\ late' \subseteq late \cup {w}

Quiet == UNCHANGED <<memory, gpio>> /\ late' \subseteq late

LEMMA WrittenIsTried ==
  ASSUME NEW w, NEW ok, Written(w, ok)
  PROVE  Tried(w)
BY DEF Written, Tried, Succeeds, Fails

LEMMA CardOfThread ==
  ASSUME NEW t \in Thread, Rpc(t)
  PROVE  Quiet \/ \E w : Attempt(w) /\ Tried(w)
<1>1. CASE Serve(t)
  BY <1>1 DEF Serve, cardVars, Quiet
<1>2. CASE CheckPresent(t)
  BY <1>2 DEF CheckPresent, Quiet, Fails, Succeeds
<1>3. CASE ReadPage(t)
  BY <1>3 DEF ReadPage, Quiet, Fails, Succeeds
<1>4. CASE ReadByte(t)
  BY <1>4 DEF ReadByte, Quiet, Fails, Succeeds
<1>5. CASE WriteByte(t)
  <2>1. pc[t] = "write" /\ (Written(ByteWrite(t), FALSE) \/ Written(ByteWrite(t), TRUE))
    BY <1>5 DEF WriteByte, ByteWrite
  <2> QED
    BY <2>1, WrittenIsTried DEF Attempt
<1>6. CASE ReadInfoPage(t)
  BY <1>6 DEF ReadInfoPage, Quiet, Fails, Succeeds
<1>7. CASE ReadGpio(t)
  BY <1>7 DEF ReadGpio, Quiet, Fails, Succeeds
<1>8. CASE WriteGpio(t)
  <2>1. /\ pc[t] = "gpio_write"
        /\ Written(GpioWrite(t), FALSE) \/ Written(GpioWrite(t), TRUE)
    BY <1>8 DEF WriteGpio, GpioWrite
  <2> QED
    BY <2>1, WrittenIsTried DEF Attempt
<1> QED
  BY <1>1, <1>2, <1>3, <1>4, <1>5, <1>6, <1>7, <1>8 DEF Rpc

LEMMA OwnOfThread ==
  ASSUME TypeInv, NEW t \in Thread, Rpc(t)
  PROVE  Own(t)
BY OwnServe, OwnCheckPresent, OwnReadPage, OwnReadByte, OwnWriteByte, OwnReadInfoPage,
   OwnReadGpio, OwnWriteGpio DEF Rpc

LEMMA CardSteps ==
  ASSUME TypeInv, [Next]_vars
  PROVE  /\ req' = req /\ present' \subseteq present
         /\ Quiet \/ \E w : Attempt(w) /\ Tried(w)
<1>1. CASE UNCHANGED vars
  BY <1>1 DEF vars, cardVars, Quiet
<1>2. ASSUME NEW t \in Thread, Rpc(t)
      PROVE  /\ req' = req /\ present' \subseteq present
             /\ Quiet \/ \E w : Attempt(w) /\ Tried(w)
  BY <1>2, OwnOfThread, CardOfThread DEF Own
<1>3. ASSUME NEW m \in Module, Unplug(m)
      PROVE  /\ req' = req /\ present' \subseteq present /\ Quiet
  BY <1>3 DEF Unplug, Quiet
<1>4. ASSUME Land
      PROVE  /\ req' = req /\ present' \subseteq present
             /\ \E w : Attempt(w) /\ Tried(w)
  BY <1>4 DEF Land, Attempt, Tried
<1> QED
  BY <1>1, <1>2, <1>3, <1>4 DEF Next

\* The threads in a step that is not theirs.
LEMMA OtherSteps ==
  ASSUME TypeInv, [Next]_vars, ~\E t \in Thread : Rpc(t)
  PROVE  UNCHANGED <<pc, mod, at, data, lines, out>>
<1>1. CASE UNCHANGED vars
  BY <1>1 DEF vars, cardVars
<1>2. CASE \E m \in Module : Unplug(m)
  BY <1>2 DEF Unplug
<1>3. CASE Land
  BY <1>3 DEF Land
<1> QED
  BY <1>1, <1>2, <1>3 DEF Next

\* Addresses asked for by a request that fits.
LEMMA AskedIsMemory ==
  ASSUME TypeInv, NEW t \in Thread, NEW n \in Nat, req[t].offset + n <= Width - 1,
         req[t].page \in Page
  PROVE  Asked(t, n) \in Memory
<1>1. req[t].offset \in 0 .. Width
  BY RequestFacts DEF TypeInv
<1>2. req[t].offset + n \in 0 .. Width - 1
  BY <1>1, Sizes
<1> QED
  BY <1>1, <1>2 DEF Asked, Memory

LEMMA FitsInMemory ==
  ASSUME TypeInv, NEW t \in Thread, Fits(t), NEW k \in 0 .. req[t].count - 1
  PROVE  Asked(t, k) \in Memory
<1>1. req[t].offset \in Nat /\ req[t].count \in Nat
  BY RequestFacts, Sizes DEF TypeInv
<1>2. k \in Nat /\ req[t].offset + k <= Width - 1
  BY <1>1, Sizes DEF Fits
<1> QED
  BY <1>2, AskedIsMemory DEF Fits

LEMMA MemoryIsAsked ==
  ASSUME TypeInv, NEW t \in Thread, NEW n \in Nat, Asked(t, n) \in Memory,
         NEW k \in 0 .. n
  PROVE  Asked(t, k) \in Memory
<1>1. PICK o \in 0 .. Width - 1, p \in Page : Asked(t, n) = Address(o, p)
  BY DEF Memory
<1>2. /\ req[t].offset + n = o
      /\ o < PageSize \/ req[t].page = p
  BY <1>1 DEF Asked, Address
<1>3. req[t].offset \in 0 .. Width /\ 0 \in Page
  BY RequestFacts, ModuleRpcAssumption DEF TypeInv
<1>4. req[t].offset + k \in 0 .. Width - 1 /\ req[t].offset + k <= o
  BY <1>1, <1>2, <1>3, Sizes
<1>5. CASE req[t].offset + k < PageSize
  <2>1. Asked(t, k) = Address(req[t].offset + k, 0)
    BY <1>5 DEF Asked, Address
  <2> QED
    BY <1>3, <1>4, <2>1 DEF Memory
<1>6. CASE ~(req[t].offset + k < PageSize)
  <2>1. req[t].page = p
    BY <1>1, <1>2, <1>4, <1>6, Sizes
  <2> QED
    BY <1>1, <1>4, <2>1 DEF Asked, Memory
<1> QED
  BY <1>5, <1>6

\* A thread that writes writes what its request allows.
LEMMA PlaceOfWrite ==
  ASSUME TypeInv, PlaceInv, NEW t \in Thread, pc[t] = "write"
  PROVE  /\ mod[t] \in Module /\ req[t].mod \in {-1, mod[t]} /\ req[t].op = "set_mem"
         /\ at[t].data_offset \in 0 .. req[t].count - 1
         /\ Fits(t)
         /\ req[t].offset \in Nat /\ req[t].count \in 0 .. Width
<1>1. /\ mod[t] \in Module /\ req[t].mod \in {-1, mod[t]} /\ req[t].op = "set_mem"
      /\ at[t].data_offset < req[t].count /\ Verdict(req[t]) = "EC_OK"
  BY DEF PlaceInv, Place, Step
<1>2. req[t] \in Request /\ at[t].data_offset \in 0 .. Width
  BY DEF TypeInv
<1>3. req[t].offset \in 0 .. Width /\ req[t].count \in 0 .. Width + 1
  BY <1>2, RequestFacts
<1>4. Fits(t)
  BY <1>1, <1>2, VerdictFacts DEF Fits
<1>5. req[t].count \in 0 .. Width
  BY <1>3, <1>4, Sizes DEF Fits
<1> QED
  BY <1>1, <1>2, <1>3, <1>4, <1>5, Sizes

LEMMA AttemptIsOf ==
  ASSUME TypeInv, PlaceInv, NEW w, Attempt(w)
  PROVE  WriteOf(w)
<1>1. CASE w \in late
  BY <1>1 DEF TypeInv
<1>2. ASSUME NEW t \in Thread, pc[t] = "write", w = ByteWrite(t)
      PROVE  WriteOf(w)
  <2>1. /\ mod[t] \in Module /\ req[t].mod \in {-1, mod[t]} /\ req[t].op = "set_mem"
        /\ at[t].data_offset \in 0 .. req[t].count - 1
        /\ Fits(t)
        /\ req[t].offset \in Nat /\ req[t].count \in 0 .. Width
    BY <1>2, PlaceOfWrite
  <2>2. at[t].data_offset \in Nat /\ req[t].offset + at[t].data_offset <= Width - 1
    BY <2>1, Sizes DEF Fits
  <2>3. Asked(t, at[t].data_offset) \in Memory
    BY <2>1, <2>2, AskedIsMemory DEF Fits
  <2> QED
    BY <1>2, <2>1, <2>3 DEF WriteOf, ByteWrite, Asked
<1>3. ASSUME NEW t \in Thread, pc[t] = "gpio_write", w = GpioWrite(t)
      PROVE  WriteOf(w)
  <2>1. mod[t] \in Module /\ req[t].mod \in {-1, mod[t]} /\ req[t].op = "set_gpio"
    BY <1>3 DEF PlaceInv, Place, Step
  <2>2. lines[t] \in SUBSET Line
    BY DEF TypeInv
  <2> QED
    BY <1>3, <2>1, <2>2 DEF WriteOf, GpioWrite
<1> QED
  BY <1>1, <1>2, <1>3 DEF Attempt

LEMMA CardTyped ==
  ASSUME TypeInv, PlaceInv, [Next]_vars
  PROVE  /\ present' \subseteq Module
         /\ gpio' \in [Module -> SUBSET Line]
         /\ memory' \in [Module -> [Memory -> Thread \cup {NoThread}]]
         /\ \A w \in late' : WriteOf(w)'
         /\ req' \in [Thread -> Request]
<1>1. /\ req' = req /\ present' \subseteq present
      /\ Quiet \/ \E w : Attempt(w) /\ Tried(w)
  BY CardSteps
<1>2. /\ present \subseteq Module /\ gpio \in [Module -> SUBSET Line]
      /\ memory \in [Module -> [Memory -> Thread \cup {NoThread}]]
      /\ \A w \in late : WriteOf(w)
      /\ req \in [Thread -> Request]
  BY DEF TypeInv
<1>3. \A w : WriteOf(w) => WriteOf(w)'
  BY <1>1 DEF WriteOf
<1>4. CASE Quiet
  BY <1>1, <1>2, <1>3, <1>4 DEF Quiet
<1>5. ASSUME NEW w, Attempt(w), Tried(w)
      PROVE  /\ gpio' \in [Module -> SUBSET Line]
             /\ memory' \in [Module -> [Memory -> Thread \cup {NoThread}]]
             /\ \A v \in late' : WriteOf(v)'
  <2>1. WriteOf(w)
    BY <1>5, AttemptIsOf
  <2>2. /\ w.by \in Thread /\ w.mod \in Module
        /\ w.kind = "byte" => w.address \in Memory
        /\ w.kind = "gpio" => w.lines \in SUBSET Line
    BY <2>1 DEF WriteOf
  <2>3. gpio' = gpio \/ (w.kind = "gpio" /\ gpio' = [gpio EXCEPT ![w.mod] = w.lines])
    BY <1>5 DEF Tried, Effect
  <2>4. \/ memory' = memory
        \/ w.kind = "byte" /\ memory' = [memory EXCEPT ![w.mod][w.address] = w.by]
    BY <1>5 DEF Tried, Effect
  <2>5. gpio' \in [Module -> SUBSET Line]
    BY <1>2, <2>2, <2>3
  <2>6. memory' \in [Module -> [Memory -> Thread \cup {NoThread}]]
    BY <1>2, <2>2, <2>4
  <2>7. \A v \in late' : WriteOf(v)'
    BY <1>2, <1>3, <1>5, <2>1 DEF Tried
  <2> QED
    BY <2>5, <2>6, <2>7
<1> QED
  BY <1>1, <1>2, <1>4, <1>5

-----------------------------------------------------------------------------
(* What each action does with the thread that takes it.                     *)

\* The types of a thread's variables, and its place.
Typed(t) ==
  /\ pc[t] \in Step \cup {"idle", "done"}
  /\ mod[t] \in 0 .. NModules
  /\ at[t] \in [upper : BOOLEAN, page_offset : 0 .. Width - 1,
                data_count : 0 .. Width - 1, data_offset : 0 .. Width]
  /\ lines[t] \in SUBSET Line

LEMMA ThreadTyped ==
  ASSUME TypeInv, NEW t \in Thread
  PROVE  Typed(t) /\ req[t] \in Request
BY DEF TypeInv, Typed

\* On to the next module, or done.
LEMMA Moving ==
  ASSUME TypeInv, NEW t \in Thread, Place(t), pc[t] \in Step, NextModule(t), req' = req
  PROVE  /\ pc'[t] \in {"present", "gpio", "done"}
         /\ mod'[t] \in 0 .. NModules
         /\ Place(t)'
<1> DEFINE r == req[t]
<1>1. /\ r \in Request /\ mod[t] \in Module /\ r.mod \in {-1, mod[t]}
      /\ Verdict(r) = "EC_OK"
  BY DEF TypeInv, Place
<1>2. /\ mod'[t] = mod[t] + 1
      /\ pc'[t] = IF mod[t] < LastMod(r) THEN FirstStep(r.op) ELSE "done"
  BY DEF NextModule, TypeInv
<1>3. mod'[t] \in 0 .. NModules
  BY <1>1, <1>2, Sizes DEF Module
<1>4. mod[t] < LastMod(r) => mod[t] + 1 \in Module /\ r.mod = -1
  BY <1>1, Sizes DEF Module, LastMod, IsRange
<1>5. pc'[t] \in {"present", "gpio", "done"}
  BY <1>2 DEF FirstStep
<1>6. r.op \in {"get_gpio", "set_gpio", "get_mem", "set_mem", "get_info", "get_status"}
  BY <1>1, RequestFacts
<1>7. Verdict(r)' = Verdict(r)
  BY DEF Verdict
<1>8. Place(t)'
  BY <1>1, <1>2, <1>4, <1>5, <1>6, <1>7 DEF Place, FirstStep, Step
<1> QED
  BY <1>3, <1>5, <1>8

LEMMA Refused ==
  ASSUME TypeInv, NEW t \in Thread, NEW e, out' = [out EXCEPT ![t] = <<e>>]
  PROVE  Says(t, e)
<1>1. DOMAIN out = Thread
  BY DEF TypeInv
<1>2. out'[t] = <<e>> /\ DOMAIN out' = Thread /\ \A u \in Thread \ {t} : out'[u] = out[u]
  BY <1>1
<1> DEFINE s == <<e>>
<1>3. Len(s) = 1 /\ s[1] = e /\ s \in Seq({e})
  OBVIOUS
<1>4. {s[n] : n \in 1 .. Len(s)} = {e}
  BY <1>3
<1>5. Responses(t)' = {s[n] : n \in 1 .. Len(s)}
  BY <1>2 DEF Responses
<1> QED
  BY <1>2, <1>3, <1>4, <1>5 DEF Says

\* A thread that responds says one thing and moves on.
LEMMA Answering ==
  ASSUME TypeInv, NEW t \in Thread, Place(t), pc[t] \in Step, req' = req,
         NEW cause, NEW read, Respond(t, cause, read)
  PROVE  /\ pc'[t] \in {"present", "gpio", "done"}
         /\ mod'[t] \in 0 .. NModules
         /\ Place(t)'
         /\ Says(t, Answer(t, cause, read))
BY Responding, Moving

LEMMA TypedServe ==
  ASSUME TypeInv, NEW t \in Thread, Place(t), Serve(t)
  PROVE  /\ Typed(t)' /\ Place(t)' /\ pc'[t] \in {"present", "gpio", "done"}
         /\ Silent(t) \/ \E v : v # "EC_OK" /\ Says(t, [error_code |-> v])
<1> DEFINE r == req[t]
<1>1. Typed(t) /\ r \in Request
  BY ThreadTyped
<1>2. /\ req' = req /\ at' = at /\ lines' = lines
  BY DEF Serve
<1>3. Verdict(r)' = Verdict(r)
  BY <1>2 DEF Verdict
<1>4. /\ r.mod \in -1 .. NModules
      /\ r.op \in {"get_gpio", "set_gpio", "get_mem", "set_mem", "get_info", "get_status"}
  BY <1>1, RequestFacts
<1>5. CASE Verdict(r) = "EC_OK"
  <2>1. /\ mod'[t] = (IF IsRange(r) THEN 0 ELSE r.mod) /\ pc'[t] = FirstStep(r.op)
        /\ out' = out
    BY <1>5 DEF Serve, TypeInv
  <2>2. r.mod <= NModules - 1
    BY <1>1, <1>5, VerdictFacts
  <2>3. mod'[t] \in Module /\ r.mod \in {-1, mod'[t]}
    BY <1>4, <2>1, <2>2, Sizes DEF Module, IsRange
  <2>4. mod'[t] \in 0 .. NModules
    BY <2>3, Sizes DEF Module
  <2>5. Typed(t)'
    BY <1>1, <1>2, <2>1, <2>4 DEF Typed, FirstStep, Step
  <2>6. Place(t)'
    BY <1>2, <1>3, <1>4, <1>5, <2>1, <2>3 DEF Place, FirstStep, Step
  <2> QED
    BY <2>1, <2>5, <2>6 DEF Silent, FirstStep
<1>6. CASE Verdict(r) # "EC_OK"
  <2>1. /\ pc[t] = "idle" /\ mod' = mod /\ pc'[t] = "done"
        /\ out' = [out EXCEPT ![t] = <<[error_code |-> Verdict(r)]>>]
    BY <1>6 DEF Serve, TypeInv
  <2>2. Typed(t)'
    BY <1>1, <1>2, <2>1 DEF Typed
  <2>3. Place(t)'
    BY <2>1 DEF Place, Step
  <2> QED
    BY <1>6, <2>1, <2>2, <2>3, Refused
<1> QED
  BY <1>5, <1>6

\* The loop variables at the first byte of a request.
Start(r) ==
  [upper |-> r.op = "get_mem" /\ r.offset >= PageSize,
   page_offset |-> First(r),
   data_count  |-> IF Count(r) < Left(r) THEN Count(r) ELSE Left(r),
   data_offset |-> 0]

LEMMA StartTyped ==
  ASSUME NEW r \in Request
  PROVE  /\ Start(r) \in [upper : BOOLEAN, page_offset : 0 .. Width - 1,
                          data_count : 0 .. Width - 1, data_offset : 0 .. Width]
         /\ First(r) \in 0 .. PageSize - 1 /\ Left(r) \in 1 .. PageSize
         /\ r.op = "get_mem" => AtFirstPage(r, Start(r))
<1>1. r.offset \in 0 .. Width /\ Count(r) \in 0 .. Width + 1
  BY RequestFacts
<1>2. First(r) \in 0 .. PageSize - 1
  <2>1. PageSize \in Nat \ {0} /\ r.offset \in Int
    BY <1>1, Sizes
  <2> QED
    BY <2>1, ModRange DEF First
<1>3. Left(r) \in 1 .. PageSize
  BY <1>2, Sizes DEF Left
<1>4. (IF Count(r) < Left(r) THEN Count(r) ELSE Left(r)) \in 0 .. Width - 1
  BY <1>1, <1>3, Sizes
<1>5. First(r) \in 0 .. Width - 1 /\ 0 \in 0 .. Width
  BY <1>2, Sizes
<1>6. r.op = "get_mem" => AtFirstPage(r, Start(r))
  BY DEF AtFirstPage, Start
<1> QED
  BY <1>2, <1>3, <1>4, <1>5, <1>6 DEF Start

LEMMA TypedCheckPresent ==
  ASSUME TypeInv, NEW t \in Thread, Place(t), CheckPresent(t)
  PROVE  /\ Typed(t)' /\ Place(t)'
         /\ DOMAIN data'[t] = {}
         /\ \/ /\ pc'[t] \in {"present", "gpio", "done"}
               /\ \/ Silent(t)
                  \/ \E cause : /\ Says(t, Answer(t, cause, Nothing))
                                /\ cause = "EC_OK" =>
                                     \/ req[t].op = "get_status"
                                     \/ req[t].op = "set_mem" /\ req[t].count = 0
            \/ /\ pc'[t] \in {"page", "byte", "write", "info"}
               /\ Silent(t) /\ mod'[t] = mod[t]
               /\ at'[t] = Start(req[t])
<1> DEFINE r == req[t]
           m == mod[t]
           Ok == r.op = "get_status" \/ (r.op = "set_mem" /\ r.count = 0)
           Absent(cause) == IF IsRange(r) THEN NextModule(t) /\ UNCHANGED out
                            ELSE Respond(t, cause, Nothing)
<1>1. Typed(t) /\ r \in Request /\ pc[t] = "present" /\ pc[t] \in Step
  BY ThreadTyped DEF CheckPresent, Step
<1>2. /\ m \in Module /\ r.mod \in {-1, m} /\ Verdict(r) = "EC_OK"
      /\ r.op \in {"get_mem", "set_mem", "get_info", "get_status"}
  BY <1>1 DEF Place
<1>3. req' = req /\ lines' = lines /\ data' = [data EXCEPT ![t] = [n \in {} |-> 0]]
  BY DEF CheckPresent
<1>4. at' = at \/ at' = [at EXCEPT ![t] = Start(r)]
  BY DEF CheckPresent, Start, First, Left
<1>5. /\ lines'[t] \in SUBSET Line
      /\ at'[t] \in [upper : BOOLEAN, page_offset : 0 .. Width - 1,
                     data_count : 0 .. Width - 1, data_offset : 0 .. Width]
  BY <1>1, <1>3, <1>4, StartTyped DEF Typed, TypeInv
<1>6. DOMAIN data'[t] = {}
  BY <1>3, OwnFunctions
<1>7. \/ Absent("EC_MODULE_GPIO_READ_FAILED")
      \/ Absent("EC_MODULE_NOT_PRESENT")
      \/ Ok /\ Respond(t, "EC_OK", Nothing)
      \/ /\ ~Ok
         /\ pc' = [pc EXCEPT ![t] =
                     CASE r.op = "set_mem"  -> "write"
                       [] r.op = "get_info" -> "info"
                       [] OTHER -> IF Count(r) > 1 THEN "page" ELSE "byte"]
         /\ UNCHANGED <<mod, out>>
         /\ at' = [at EXCEPT ![t] = Start(r)]
  BY DEF CheckPresent, Start, First, Left
<1>8. ASSUME NEW cause, Absent(cause), cause # "EC_OK"
      PROVE  /\ Typed(t)' /\ Place(t)' /\ pc'[t] \in {"present", "gpio", "done"}
             /\ \/ Silent(t)
                \/ \E c : Says(t, Answer(t, c, Nothing)) /\ (c = "EC_OK" => Ok)
  <2>1. CASE IsRange(r)
    <3>1. NextModule(t) /\ Silent(t)
      BY <1>8, <2>1 DEF Silent
    <3>2. Place(t)' /\ pc'[t] \in {"present", "gpio", "done"} /\ mod'[t] \in 0 .. NModules
      BY <1>1, <1>3, <3>1, Moving
    <3> QED
      BY <1>5, <3>1, <3>2 DEF Typed, Step
  <2>2. CASE ~IsRange(r)
    <3>1. Respond(t, cause, Nothing)
      BY <1>8, <2>2
    <3>2. /\ Place(t)' /\ pc'[t] \in {"present", "gpio", "done"}
          /\ mod'[t] \in 0 .. NModules /\ Says(t, Answer(t, cause, Nothing))
      BY <1>1, <1>3, <3>1, Answering
    <3> QED
      BY <1>5, <1>8, <3>2 DEF Typed, Step
  <2> QED
    BY <2>1, <2>2
<1>9. ASSUME Ok, Respond(t, "EC_OK", Nothing)
      PROVE  /\ Typed(t)' /\ Place(t)' /\ pc'[t] \in {"present", "gpio", "done"}
             /\ \E c : Says(t, Answer(t, c, Nothing)) /\ (c = "EC_OK" => Ok)
  <2>1. /\ Place(t)' /\ pc'[t] \in {"present", "gpio", "done"}
        /\ mod'[t] \in 0 .. NModules /\ Says(t, Answer(t, "EC_OK", Nothing))
    BY <1>1, <1>3, <1>9, Answering
  <2> QED
    BY <1>5, <1>9, <2>1 DEF Typed, Step
<1>10. ASSUME ~Ok, UNCHANGED <<mod, out>>, at' = [at EXCEPT ![t] = Start(r)],
              pc' = [pc EXCEPT ![t] =
                      CASE r.op = "set_mem"  -> "write"
                        [] r.op = "get_info" -> "info"
                        [] OTHER -> IF Count(r) > 1 THEN "page" ELSE "byte"]
       PROVE  /\ Typed(t)' /\ Place(t)' /\ pc'[t] \in {"page", "byte", "write", "info"}
              /\ Silent(t) /\ mod'[t] = mod[t] /\ at'[t] = Start(r)
  <2>1. pc'[t] = CASE r.op = "set_mem"  -> "write"
                   [] r.op = "get_info" -> "info"
                   [] OTHER -> IF Count(r) > 1 THEN "page" ELSE "byte"
    BY <1>10, OwnFunctions
  <2>2. at'[t] = Start(r)
    BY <1>10, OwnFunctions
  <2>3. /\ r.op = "set_mem" => pc'[t] = "write" /\ r.count # 0
        /\ r.op = "get_info" => pc'[t] = "info"
        /\ r.op = "get_mem" => pc'[t] = IF Count(r) > 1 THEN "page" ELSE "byte"
        /\ r.op \in {"get_mem", "set_mem", "get_info"}
    BY <1>2, <1>10, <2>1
  <2>4. r.op = "get_mem" => Count(r) \in 1 .. Width
    BY <1>1, <1>2, VerdictFacts
  <2>5. r.op = "get_mem" => pc'[t] \in {"page", "byte"}
                           /\ (pc'[t] = "page" => Count(r) > 1)
                           /\ (pc'[t] = "byte" => Count(r) = 1)
    BY <2>3, <2>4, Sizes
  <2>6. r.count \in 0 .. Width + 1 /\ at'[t].data_offset = 0
    BY <1>1, <2>2, RequestFacts DEF Start
  <2>7. /\ r.op = "set_mem" => 0 < r.count
        /\ 0 <= 2
    BY <2>3, <2>6, Sizes
  <2>8. Typed(t)'
    BY <1>1, <1>5, <1>10, <2>3, <2>5 DEF Typed, Step
  <2>9. Verdict(r)' = Verdict(r)
    BY <1>3 DEF Verdict
  <2>10. mod' = mod /\ Count(r)' = Count(r)
    BY <1>3, <1>10 DEF Count
  <2>11. Place(t)'
    BY <1>2, <1>3, <2>3, <2>5, <2>6, <2>7, <2>9, <2>10 DEF Place
  <2> QED
    BY <1>10, <2>2, <2>3, <2>5, <2>8, <2>11 DEF Silent
<1> QED
  BY <1>6, <1>7, <1>8, <1>9, <1>10

-----------------------------------------------------------------------------
(* A page of a read: the variables of the loop go on to the second page, or *)
(* all is read; and the bytes of the page are the next ones asked for.      *)

\* A request whose page is being read.
Loops(r) ==
  r \in Request /\ r.op = "get_mem" /\ Verdict(r) = "EC_OK" /\ Count(r) > 1

\* Where the n-th byte is read from.
SourceOf(r, i, n) ==
  n - i.data_offset + i.page_offset + (IF i.upper THEN PageSize ELSE 0)

NextOffset(i) == (i.data_offset + i.data_count) % Width
More(r, i)    == (Count(r) - NextOffset(i)) % Width

LEMMA LoopNumbers ==
  ASSUME NEW r, Loops(r)
  PROVE  /\ r.offset \in 0 .. Width - 1 /\ Count(r) \in 2 .. Width
         /\ First(r) \in 0 .. PageSize - 1 /\ Left(r) \in 1 .. PageSize
         /\ Left(r) = PageSize - First(r)
         /\ r.offset = First(r) + (IF r.offset >= PageSize THEN PageSize ELSE 0)
<1>1. r.offset \in 0 .. Width - 1 /\ Count(r) \in 1 .. Width /\ Count(r) > 1
  BY VerdictFacts DEF Loops
<1>2. Count(r) \in 2 .. Width
  BY <1>1, Sizes
<1>3. First(r) \in 0 .. PageSize - 1 /\ Left(r) \in 1 .. PageSize
  BY StartTyped DEF Loops
<1>4. CASE r.offset >= PageSize
  <2>1. PageSize \in Nat \ {0} /\ r.offset \in PageSize .. 2 * PageSize - 1
    BY <1>1, <1>4, Sizes
  <2>2. First(r) = r.offset - PageSize
    BY <2>1, ModAbove DEF First
  <2> QED
    BY <1>1, <1>2, <1>3, <1>4, <2>2, Sizes DEF Left
<1>5. CASE ~(r.offset >= PageSize)
  <2>1. PageSize \in Nat \ {0} /\ r.offset \in 0 .. PageSize - 1
    BY <1>1, <1>5, Sizes
  <2>2. First(r) = r.offset
    BY <2>1, ModBelow DEF First
  <2> QED
    BY <1>1, <1>2, <1>3, <1>5, <2>2, Sizes DEF Left
<1> QED
  BY <1>4, <1>5

LEMMA FirstPage ==
  ASSUME NEW r, Loops(r), NEW i, AtFirstPage(r, i)
  PROVE  /\ i.data_count \in 1 .. PageSize
         /\ NextOffset(i) = i.data_count
         /\ More(r, i) = Count(r) - i.data_count
         /\ More(r, i) > 0 => /\ NextOffset(i) = Left(r) /\ Left(r) < Count(r)
                              /\ More(r, i) = Count(r) - Left(r)
         /\ ~(More(r, i) > 0) => i.data_count = Count(r)
<1> DEFINE c == Count(r)
           d == i.data_count
<1>1. /\ c \in 2 .. Width /\ Left(r) \in 1 .. PageSize
      /\ i.data_offset = 0 /\ d = IF c < Left(r) THEN c ELSE Left(r)
  BY LoopNumbers DEF AtFirstPage
<1> HIDE DEF c, d
<1>2. d \in 1 .. PageSize /\ d <= c
  BY <1>1, Sizes
<1>3. i.data_offset + d = d /\ d \in 0 .. Width - 1 /\ Width \in Nat \ {0}
  BY <1>1, <1>2, Sizes
<1>4. NextOffset(i) = d
  BY <1>3, ModBelow DEF NextOffset, d
<1>5. c - d \in 0 .. Width - 1
  BY <1>1, <1>2, Sizes
<1>6. More(r, i) = c - d
  BY <1>3, <1>4, <1>5, ModBelow DEF More, c
<1>7. c - d > 0 => d = Left(r) /\ Left(r) < c
  BY <1>1, <1>2, Sizes
<1>8. ~(c - d > 0) => d = c
  BY <1>1, <1>2, Sizes
<1> QED
  BY <1>2, <1>4, <1>6, <1>7, <1>8 DEF c, d

LEMMA SecondPage ==
  ASSUME NEW r, Loops(r), NEW i, AtSecondPage(r, i)
  PROVE  /\ i.data_offset + i.data_count = Count(r)
         /\ NextOffset(i) \in 0 .. Width - 1
         /\ More(r, i) = 0
<1> DEFINE c == Count(r)
           l == Left(r)
<1>1. /\ c \in 2 .. Width /\ l \in 1 .. PageSize
      /\ i.data_offset = l /\ i.data_count = c - l
  BY LoopNumbers DEF AtSecondPage
<1> HIDE DEF c, l
<1>2. i.data_offset + i.data_count = c /\ Width \in Nat \ {0}
  BY <1>1, Sizes
<1>3. CASE c = Width
  <2>1. NextOffset(i) = 0
    BY <1>2, <1>3, ModSelf DEF NextOffset
  <2>2. c - 0 = Width
    BY <1>3, Sizes
  <2>3. More(r, i) = 0
    BY <1>2, <2>1, <2>2, ModSelf DEF More, c
  <2> QED
    BY <1>2, <2>1, <2>3, Sizes DEF c
<1>4. CASE c # Width
  <2>1. c \in 0 .. Width - 1
    BY <1>1, <1>4, Sizes
  <2>2. NextOffset(i) = c
    BY <1>2, <2>1, ModBelow DEF NextOffset
  <2>3. c - c = 0 /\ 0 \in 0 .. Width - 1
    BY <2>1, Sizes
  <2>4. More(r, i) = 0
    BY <1>2, <2>2, <2>3, ModBelow DEF More, c
  <2> QED
    BY <1>2, <2>1, <2>2, <2>4 DEF c
<1> QED
  BY <1>3, <1>4

LEMMA SourceIsAsked ==
  ASSUME NEW r, Loops(r), Inside(r), NEW i, NEW n \in Int,
         AtFirstPage(r, i) \/ AtSecondPage(r, i)
  PROVE  SourceOf(r, i, n) = r.offset + n
<1>1. /\ r.offset \in 0 .. Width - 1 /\ Count(r) \in 2 .. Width
      /\ First(r) \in 0 .. PageSize - 1 /\ Left(r) = PageSize - First(r)
      /\ r.offset = First(r) + (IF r.offset >= PageSize THEN PageSize ELSE 0)
  BY LoopNumbers
<1>2. CASE AtFirstPage(r, i)
  <2>1. SourceOf(r, i, n) = n - 0 + First(r) + (IF r.offset >= PageSize THEN PageSize ELSE 0)
    BY <1>2 DEF AtFirstPage, SourceOf
  <2> QED
    BY <1>1, <2>1, Sizes
<1>3. CASE AtSecondPage(r, i)
  <2>1. SourceOf(r, i, n) = n - Left(r) + 0 + PageSize /\ Left(r) < Count(r)
    BY <1>3 DEF AtSecondPage, SourceOf
  <2>2. r.offset + Count(r) <= Width
    BY DEF Inside
  <2>3. r.offset = First(r)
    BY <1>1, <2>1, <2>2, Sizes
  <2> QED
    BY <1>1, <2>1, <2>3, Sizes
<1> QED
  BY <1>2, <1>3

\* The bytes read with the page that i is about.
Got(t) ==
  LET r == req[t]
      i == at[t]
  IN  [n \in DOMAIN data[t] \cup i.data_offset .. i.data_offset + i.data_count - 1 |->
         IF n >= i.data_offset
         THEN ByteAt(mod[t], Address(SourceOf(r, i, n), r.page)) ELSE data[t][n]]

LEMMA ReadPageSteps ==
  ASSUME TypeInv, NEW t \in Thread, ReadPage(t)
  PROVE  /\ pc[t] = "page" /\ req' = req /\ lines' = lines
         /\ \/ /\ Respond(t, "EC_MODULE_PAGE_READ_FAILED", Nothing)
               /\ at' = at /\ data' = data
            \/ /\ data'[t] = Got(t)
               /\ at'[t] = [upper |-> TRUE, page_offset |-> 0,
                            data_count |-> More(req[t], at[t]),
                            data_offset |-> NextOffset(at[t])]
               /\ IF More(req[t], at[t]) > 0 THEN UNCHANGED <<mod, pc, out>>
                  ELSE Respond(t, "EC_OK", Got(t))
<1> DEFINE r == req[t]
           i == at[t]
           a == [upper |-> TRUE, page_offset |-> 0, data_count |-> More(r, i),
                 data_offset |-> NextOffset(i)]
<1>1. \/ /\ Respond(t, "EC_MODULE_PAGE_READ_FAILED", Nothing)
         /\ at' = at /\ data' = data
      \/ /\ data' = [data EXCEPT ![t] = Got(t)]
         /\ at' = [at EXCEPT ![t] = a]
         /\ IF More(r, i) > 0 THEN UNCHANGED <<mod, pc, out>>
            ELSE Respond(t, "EC_OK", Got(t))
  BY DEF ReadPage, Got, More, NextOffset, SourceOf
<1>2. pc[t] = "page" /\ req' = req /\ lines' = lines
  BY DEF ReadPage
<1>3. data' = [data EXCEPT ![t] = Got(t)] => data'[t] = Got(t)
  BY OwnFunctions
<1>4. at' = [at EXCEPT ![t] = a] => at'[t] = a
  BY OwnFunctions
<1> QED
  BY <1>1, <1>2, <1>3, <1>4

LEMMA GotIsAsked ==
  ASSUME TypeInv, NEW t \in Thread, Reading(t), pc[t] = "page", Loops(req[t])
  PROVE  LET i == at[t]
         IN  /\ DOMAIN Got(t) = 0 .. (i.data_offset + i.data_count) - 1
             /\ i.data_offset + i.data_count \in 1 .. Count(req[t])
             /\ AsAsked(req[t], mod[t], Got(t))
<1> DEFINE r == req[t]
           i == at[t]
           o == i.data_offset
           c == i.data_count
<1>1. /\ AtFirstPage(r, i) \/ AtSecondPage(r, i)
      /\ DOMAIN data[t] = 0 .. o - 1
      /\ AsAsked(r, mod[t], data[t])
  BY DEF Reading
<1>2. o \in 0 .. Width /\ c \in 0 .. Width - 1 /\ Count(r) \in 2 .. Width
  BY ThreadTyped, LoopNumbers DEF Typed
<1>3. ASSUME AtFirstPage(r, i) PROVE o + c \in 1 .. Count(r)
  <2>1. o = 0 /\ c \in 1 .. PageSize /\ Left(r) \in 1 .. PageSize
    BY <1>3, FirstPage, LoopNumbers DEF AtFirstPage
  <2>2. c = IF Count(r) < Left(r) THEN Count(r) ELSE Left(r)
    BY <1>3 DEF AtFirstPage
  <2> HIDE DEF o, c
  <2> QED
    BY <1>2, <2>1, <2>2, Sizes
<1>4. ASSUME AtSecondPage(r, i) PROVE o + c \in 1 .. Count(r)
  <2>1. o + c = Count(r)
    BY <1>4, SecondPage
  <2> HIDE DEF o, c
  <2> QED
    BY <1>2, <2>1, Sizes
<1>5. o + c \in 1 .. Count(r)
  BY <1>1, <1>3, <1>4
<1>6. DOMAIN Got(t) = (0 .. o - 1) \cup (o .. o + c - 1)
  BY <1>1 DEF Got
<1>7. (0 .. o - 1) \cup (o .. o + c - 1) = 0 .. (o + c) - 1
  <2> HIDE DEF o, c
  <2> QED
    BY <1>2, Sizes
<1>8. ASSUME Inside(r), NEW n \in DOMAIN Got(t)
      PROVE  Got(t)[n][1] = mod[t] /\ Got(t)[n][2] = Address(r.offset + n, r.page)
  <2>1. n \in 0 .. (o + c) - 1 /\ n \in Int
    BY <1>6, <1>7, <1>8
  <2>2. CASE n >= o
    <3>1. Got(t)[n] = ByteAt(mod[t], Address(SourceOf(r, i, n), r.page))
      BY <1>8, <2>2 DEF Got
    <3>2. SourceOf(r, i, n) = r.offset + n
      BY <1>1, <1>8, <2>1, SourceIsAsked
    <3> QED
      BY <3>1, <3>2 DEF ByteAt
  <2>3. CASE ~(n >= o)
    <3>1. Got(t)[n] = data[t][n]
      BY <1>8, <2>3 DEF Got
    <3>2. n \in DOMAIN data[t]
      <4> HIDE DEF o, c
      <4> QED
        BY <1>1, <1>2, <2>1, <2>3, Sizes
    <3> QED
      BY <1>1, <1>8, <3>1, <3>2 DEF AsAsked
  <2> QED
    BY <2>2, <2>3
<1> QED
  BY <1>5, <1>6, <1>7, <1>8 DEF AsAsked

LEMMA TypedReadPage ==
  ASSUME TypeInv, NEW t \in Thread, Place(t), Reading(t), ReadPage(t)
  PROVE  /\ Typed(t)' /\ Place(t)' /\ Reading(t)'
         /\ pc'[t] \in {"page", "present", "gpio", "done"}
         /\ \/ Silent(t)
            \/ \E cause, read :
                 /\ Says(t, Answer(t, cause, read))
                 /\ cause = "EC_OK" => /\ DOMAIN read = 0 .. Count(req[t]) - 1
                                       /\ AsAsked(req[t], mod[t], read)
         /\ req[t].op = "get_mem"
<1> DEFINE r == req[t]
           i == at[t]
<1>1. /\ pc[t] = "page" /\ req' = req /\ lines' = lines
      /\ \/ /\ Respond(t, "EC_MODULE_PAGE_READ_FAILED", Nothing)
            /\ at' = at /\ data' = data
         \/ /\ data'[t] = Got(t)
            /\ at'[t] = [upper |-> TRUE, page_offset |-> 0,
                         data_count |-> More(r, i),
                         data_offset |-> NextOffset(i)]
            /\ IF More(r, i) > 0 THEN UNCHANGED <<mod, pc, out>>
               ELSE Respond(t, "EC_OK", Got(t))
  BY ReadPageSteps
<1>2. pc[t] \in Step /\ Typed(t) /\ Loops(r)
  BY <1>1, ThreadTyped DEF Place, Step, Loops
<1>3. r.op = "get_mem" /\ lines'[t] \in SUBSET Line
  BY <1>1, <1>2 DEF Loops, Typed
<1>4. /\ DOMAIN Got(t) = 0 .. (i.data_offset + i.data_count) - 1
      /\ i.data_offset + i.data_count \in 1 .. Count(r)
      /\ AsAsked(r, mod[t], Got(t))
  BY <1>1, <1>2, GotIsAsked
<1>5. Count(r) \in 2 .. Width
  BY <1>2, LoopNumbers
<1>6. DOMAIN Got(t) \subseteq 0 .. Width - 1
  <2> DEFINE x == i.data_offset + i.data_count
  <2>1. DOMAIN Got(t) = 0 .. x - 1
    BY <1>4
  <2>2. x \in 1 .. Count(r)
    BY <1>4
  <2> HIDE DEF x
  <2> QED
    BY <1>5, <2>1, <2>2, Sizes
<1>7. AtFirstPage(r, i) \/ AtSecondPage(r, i)
  BY <1>1 DEF Reading
<1>8. CASE Respond(t, "EC_MODULE_PAGE_READ_FAILED", Nothing) /\ at' = at /\ data' = data
  <2>1. /\ pc'[t] \in {"present", "gpio", "done"} /\ mod'[t] \in 0 .. NModules
        /\ Place(t)' /\ Says(t, Answer(t, "EC_MODULE_PAGE_READ_FAILED", Nothing))
    BY <1>1, <1>2, <1>8, Answering
  <2>2. Typed(t)'
    BY <1>2, <1>3, <1>8, <2>1 DEF Typed, Step
  <2>3. Reading(t)'
    BY <1>8, <2>1 DEF Reading
  <2> QED
    BY <1>3, <2>1, <2>2, <2>3
<1>9. ASSUME data'[t] = Got(t),
             at'[t] = [upper |-> TRUE, page_offset |-> 0, data_count |-> More(r, i),
                       data_offset |-> NextOffset(i)]
      PROVE  at'[t] \in [upper : BOOLEAN, page_offset : 0 .. Width - 1,
                         data_count : 0 .. Width - 1, data_offset : 0 .. Width]
  <2>1. Width \in Nat \ {0} /\ i.data_offset + i.data_count \in Int
    BY <1>4, <1>5, Sizes
  <2>2. NextOffset(i) \in 0 .. Width - 1
    BY <2>1, ModRange DEF NextOffset
  <2>3. Count(r) - NextOffset(i) \in Int
    BY <1>5, <2>2, Sizes
  <2>4. More(r, i) \in 0 .. Width - 1
    BY <2>1, <2>3, ModRange DEF More
  <2>5. 0 \in 0 .. Width - 1 /\ NextOffset(i) \in 0 .. Width
    BY <2>2, Sizes
  <2> QED
    BY <1>9, <2>4, <2>5
<1>10. ASSUME data'[t] = Got(t), More(r, i) > 0, UNCHANGED <<mod, pc, out>>,
              at'[t] = [upper |-> TRUE, page_offset |-> 0, data_count |-> More(r, i),
                        data_offset |-> NextOffset(i)]
       PROVE  Typed(t)' /\ Place(t)' /\ Reading(t)' /\ pc'[t] = "page" /\ Silent(t)
  <2>1. AtFirstPage(r, i)
    BY <1>2, <1>7, <1>10, SecondPage
  <2>2. /\ NextOffset(i) = Left(r) /\ Left(r) < Count(r)
        /\ More(r, i) = Count(r) - Left(r) /\ NextOffset(i) = i.data_count
        /\ i.data_offset = 0
    BY <1>2, <1>10, <2>1, FirstPage DEF AtFirstPage
  <2>3. Typed(t)'
    BY <1>2, <1>3, <1>9, <1>10 DEF Typed
  <2>4. Place(t)'
    <3>1. Verdict(r)' = Verdict(r) /\ Count(r)' = Count(r)
      BY <1>1 DEF Verdict, Count
    <3> QED
      BY <1>1, <1>10, <3>1 DEF Place
  <2>5. AtSecondPage(r, at'[t])
    BY <1>10, <2>2 DEF AtSecondPage
  <2>6. AtSecondPage(req[t], at[t])'
    BY <1>1, <2>5 DEF AtSecondPage, Left, First, Count
  <2>7. DOMAIN Got(t) = 0 .. at'[t].data_offset - 1
    <3>1. i.data_offset + i.data_count = i.data_count
      <4>1. i.data_count \in 0 .. Width - 1
        BY <1>2 DEF Typed
      <4> QED
        BY <2>2, <4>1, Sizes
    <3> QED
      BY <1>4, <1>10, <2>2, <3>1
  <2>8. AsAsked(req[t], mod[t], data[t])'
    BY <1>1, <1>4, <1>10 DEF AsAsked, Inside, Count
  <2>9. Reading(t)'
    BY <1>6, <1>10, <2>6, <2>7, <2>8 DEF Reading
  <2> QED
    BY <1>1, <1>10, <2>3, <2>4, <2>9 DEF Silent
<1>11. ASSUME data'[t] = Got(t), ~(More(r, i) > 0), Respond(t, "EC_OK", Got(t)),
              at'[t] = [upper |-> TRUE, page_offset |-> 0, data_count |-> More(r, i),
                        data_offset |-> NextOffset(i)]
       PROVE  /\ Typed(t)' /\ Place(t)' /\ Reading(t)'
              /\ pc'[t] \in {"present", "gpio", "done"}
              /\ Says(t, Answer(t, "EC_OK", Got(t)))
              /\ DOMAIN Got(t) = 0 .. Count(r) - 1
  <2>1. /\ pc'[t] \in {"present", "gpio", "done"} /\ mod'[t] \in 0 .. NModules
        /\ Place(t)' /\ Says(t, Answer(t, "EC_OK", Got(t)))
    BY <1>1, <1>2, <1>11, Answering
  <2>2. Typed(t)'
    BY <1>3, <1>9, <1>11, <2>1 DEF Typed, Step
  <2>3. Reading(t)'
    BY <1>6, <1>11, <2>1 DEF Reading
  <2>4. i.data_offset + i.data_count = Count(r)
    <3>1. CASE AtFirstPage(r, i)
      <4>1. i.data_count = Count(r) /\ i.data_offset = 0
        BY <1>2, <1>11, <3>1, FirstPage DEF AtFirstPage
      <4> QED
        BY <1>5, <4>1, Sizes
    <3>2. CASE AtSecondPage(r, i)
      BY <1>2, <3>2, SecondPage
    <3> QED
      BY <1>7, <3>1, <3>2
  <2>5. DOMAIN Got(t) = 0 .. Count(r) - 1
    BY <1>4, <2>4
  <2> QED
    BY <2>1, <2>2, <2>3, <2>5
<1> QED
  BY <1>1, <1>3, <1>4, <1>8, <1>10, <1>11

-----------------------------------------------------------------------------
(* The other calls of a request.                                            *)

LEMMA TypedReadByte ==
  ASSUME TypeInv, NEW t \in Thread, Place(t), ReadByte(t)
  PROVE  /\ Typed(t)' /\ Place(t)' /\ data' = data
         /\ pc'[t] \in {"present", "gpio", "done"}
         /\ \E cause, read :
              /\ Says(t, Answer(t, cause, read))
              /\ cause = "EC_OK" => /\ DOMAIN read = 0 .. Count(req[t]) - 1
                                    /\ AsAsked(req[t], mod[t], read)
         /\ req[t].op = "get_mem"
<1> DEFINE r == req[t]
           b == [n \in {0} |-> ByteAt(mod[t], Address(r.offset, r.page))]
<1>1. /\ pc[t] = "byte" /\ req' = req /\ at' = at /\ lines' = lines /\ data' = data
      /\ \/ Respond(t, "EC_MODULE_MEM_READ_FAILED", Nothing)
         \/ Respond(t, "EC_OK", b)
  BY DEF ReadByte
<1>2. /\ pc[t] \in Step /\ Typed(t) /\ r.op = "get_mem" /\ Count(r) = 1
      /\ r \in Request
  BY <1>1, ThreadTyped DEF Place, Step
<1>3. r.offset \in 0 .. Width
  BY <1>2, RequestFacts
<1>4. DOMAIN b = 0 .. Count(r) - 1
  <2>1. 0 .. 1 - 1 = {0}
    OBVIOUS
  <2> QED
    BY <1>2, <2>1
<1>5. AsAsked(r, mod[t], b)
  <2>1. \A n \in {0} : r.offset + n = r.offset
    BY <1>3, Sizes
  <2>2. \A n \in {0} : /\ b[n][1] = mod[t]
                       /\ b[n][2] = Address(r.offset, r.page)
    BY DEF ByteAt
  <2>3. DOMAIN b = {0}
    OBVIOUS
  <2> HIDE DEF b
  <2> QED
    BY <2>1, <2>2, <2>3 DEF AsAsked
<1> HIDE DEF b
<1>6. ASSUME NEW cause, NEW read, Respond(t, cause, read)
      PROVE  /\ Typed(t)' /\ Place(t)' /\ pc'[t] \in {"present", "gpio", "done"}
             /\ Says(t, Answer(t, cause, read))
  <2>1. /\ pc'[t] \in {"present", "gpio", "done"} /\ mod'[t] \in 0 .. NModules
        /\ Place(t)' /\ Says(t, Answer(t, cause, read))
    BY <1>1, <1>2, <1>6, Answering
  <2> QED
    BY <1>1, <1>2, <2>1 DEF Typed, Step
<1> QED
  BY <1>1, <1>2, <1>4, <1>5, <1>6

LEMMA TypedWriteByte ==
  ASSUME TypeInv, PlaceInv, NEW t \in Thread, WriteByte(t)
  PROVE  /\ Typed(t)' /\ Place(t)' /\ data' = data
         /\ pc'[t] \in {"write", "present", "gpio", "done"}
         /\ pc'[t] = "write" => /\ mod'[t] = mod[t] /\ Effect(ByteWrite(t))
                                /\ at'[t].data_offset = at[t].data_offset + 1
         /\ \/ Silent(t)
            \/ \E cause :
                 /\ Says(t, Answer(t, cause, Nothing))
                 /\ cause = "EC_OK" => /\ Effect(ByteWrite(t))
                                       /\ at[t].data_offset + 1 = req[t].count
         /\ pc[t] = "write"
<1> DEFINE r == req[t]
           b == at[t].data_offset
           w == ByteWrite(t)
<1>1. /\ pc[t] = "write" /\ req' = req /\ lines' = lines /\ data' = data
      /\ \/ /\ Respond(t, "EC_MODULE_MEM_WRITE_FAILED", Nothing) /\ at' = at
         \/ /\ Effect(w)
            /\ at' = [at EXCEPT ![t].data_offset = b + 1]
            /\ IF b + 1 < r.count THEN UNCHANGED <<mod, pc, out>>
               ELSE Respond(t, "EC_OK", Nothing)
  BY DEF WriteByte, Written, ByteWrite
<1>2. pc[t] \in Step /\ Typed(t) /\ Place(t)
  BY <1>1, ThreadTyped DEF PlaceInv, Step
<1>3. /\ b \in 0 .. r.count - 1 /\ r.count \in 0 .. Width /\ r.op = "set_mem"
  BY <1>1, PlaceOfWrite
<1>4. ASSUME Respond(t, "EC_MODULE_MEM_WRITE_FAILED", Nothing), at' = at
      PROVE  /\ Typed(t)' /\ Place(t)' /\ pc'[t] \in {"present", "gpio", "done"}
             /\ Says(t, Answer(t, "EC_MODULE_MEM_WRITE_FAILED", Nothing))
  <2>1. /\ pc'[t] \in {"present", "gpio", "done"} /\ mod'[t] \in 0 .. NModules
        /\ Place(t)' /\ Says(t, Answer(t, "EC_MODULE_MEM_WRITE_FAILED", Nothing))
    BY <1>1, <1>2, <1>4, Answering
  <2> QED
    BY <1>1, <1>2, <1>4, <2>1 DEF Typed, Step
<1>5. ASSUME at' = [at EXCEPT ![t].data_offset = b + 1]
      PROVE  /\ at'[t] \in [upper : BOOLEAN, page_offset : 0 .. Width - 1,
                            data_count : 0 .. Width - 1, data_offset : 0 .. Width]
             /\ at'[t].data_offset = b + 1
  <2>1. at'[t] = [at[t] EXCEPT !.data_offset = b + 1]
    BY <1>5, OwnFunctions
  <2>2. b + 1 \in 0 .. Width
    BY <1>3, Sizes
  <2>3. at[t] \in [upper : BOOLEAN, page_offset : 0 .. Width - 1,
                   data_count : 0 .. Width - 1, data_offset : 0 .. Width]
    BY <1>2 DEF Typed
  <2> HIDE DEF b
  <2> QED
    BY <2>1, <2>2, <2>3
<1>6. ASSUME at' = [at EXCEPT ![t].data_offset = b + 1], b + 1 < r.count,
             UNCHANGED <<mod, pc, out>>
      PROVE  Typed(t)' /\ Place(t)' /\ pc'[t] = "write" /\ Silent(t)
  <2>1. Typed(t)'
    BY <1>1, <1>2, <1>5, <1>6 DEF Typed
  <2>2. Verdict(r)' = Verdict(r)
    BY <1>1 DEF Verdict
  <2>3. Place(t)'
    BY <1>1, <1>2, <1>5, <1>6, <2>2 DEF Place
  <2> QED
    BY <1>1, <1>6, <2>1, <2>3 DEF Silent
<1>7. ASSUME at' = [at EXCEPT ![t].data_offset = b + 1], ~(b + 1 < r.count),
             Respond(t, "EC_OK", Nothing)
      PROVE  /\ Typed(t)' /\ Place(t)' /\ pc'[t] \in {"present", "gpio", "done"}
             /\ Says(t, Answer(t, "EC_OK", Nothing))
             /\ b + 1 = r.count
  <2>1. /\ pc'[t] \in {"present", "gpio", "done"} /\ mod'[t] \in 0 .. NModules
        /\ Place(t)' /\ Says(t, Answer(t, "EC_OK", Nothing))
    BY <1>1, <1>2, <1>7, Answering
  <2>2. b + 1 = r.count
    BY <1>3, <1>7, Sizes
  <2> QED
    BY <1>1, <1>2, <1>5, <1>7, <2>1, <2>2 DEF Typed, Step
<1> QED
  BY <1>1, <1>4, <1>5, <1>6, <1>7

LEMMA TypedReadInfoPage ==
  ASSUME TypeInv, NEW t \in Thread, Place(t), ReadInfoPage(t)
  PROVE  /\ Typed(t)' /\ Place(t)' /\ data' = data
         /\ pc'[t] \in {"info", "present", "gpio", "done"}
         /\ Silent(t) \/ \E cause : Says(t, Answer(t, cause, Nothing))
         /\ req[t].op = "get_info"
<1> DEFINE n == at[t].data_offset
<1>1. /\ pc[t] = "info" /\ req' = req /\ lines' = lines /\ data' = data
      /\ \/ \E cause : Respond(t, cause, Nothing)
         \/ n < 2 /\ UNCHANGED <<mod, pc, out>>
      /\ at' = at \/ at' = [at EXCEPT ![t].data_offset = n + 1]
  BY DEF ReadInfoPage
<1>2. /\ pc[t] \in Step /\ Typed(t) /\ req[t].op = "get_info" /\ n <= 2
  BY <1>1, ThreadTyped DEF Place, Step
<1>3. at'[t] \in [upper : BOOLEAN, page_offset : 0 .. Width - 1,
                  data_count : 0 .. Width - 1, data_offset : 0 .. Width]
  <2>1. n \in 0 .. Width
    BY <1>2 DEF Typed
  <2>2. n + 1 \in 0 .. Width
    <3> HIDE DEF n
    <3> QED
      BY <1>2, <2>1, Sizes
  <2>3. at[t] \in [upper : BOOLEAN, page_offset : 0 .. Width - 1,
                   data_count : 0 .. Width - 1, data_offset : 0 .. Width]
    BY <1>2 DEF Typed
  <2>4. at'[t] = at[t] \/ at'[t] = [at[t] EXCEPT !.data_offset = n + 1]
    BY <1>1, OwnFunctions
  <2> HIDE DEF n
  <2> QED
    BY <2>2, <2>3, <2>4
<1>4. ASSUME NEW cause, Respond(t, cause, Nothing)
      PROVE  /\ Typed(t)' /\ Place(t)' /\ pc'[t] \in {"present", "gpio", "done"}
             /\ Says(t, Answer(t, cause, Nothing))
  <2>1. /\ pc'[t] \in {"present", "gpio", "done"} /\ mod'[t] \in 0 .. NModules
        /\ Place(t)' /\ Says(t, Answer(t, cause, Nothing))
    BY <1>1, <1>2, <1>4, Answering
  <2> QED
    BY <1>1, <1>2, <1>3, <2>1 DEF Typed, Step
<1>5. ASSUME n < 2, UNCHANGED <<mod, pc, out>>
      PROVE  Typed(t)' /\ Place(t)' /\ pc'[t] = "info" /\ Silent(t)
  <2>1. Typed(t)'
    BY <1>1, <1>2, <1>3, <1>5 DEF Typed
  <2>2. Verdict(req[t])' = Verdict(req[t])
    BY <1>1 DEF Verdict
  <2>3. n \in 0 .. Width
    BY <1>2 DEF Typed
  <2>4. at'[t] = at[t] \/ at'[t] = [at[t] EXCEPT !.data_offset = n + 1]
    BY <1>1, OwnFunctions
  <2>5. at'[t].data_offset = n \/ at'[t].data_offset = n + 1
    <3>1. at[t] \in [upper : BOOLEAN, page_offset : 0 .. Width - 1,
                     data_count : 0 .. Width - 1, data_offset : 0 .. Width]
      BY <1>2 DEF Typed
    <3> QED
      BY <2>4, <3>1
  <2>6. at'[t].data_offset <= 2
    <3> HIDE DEF n
    <3> QED
      BY <1>5, <2>3, <2>5, Sizes
  <2>7. Place(t)'
    BY <1>1, <1>2, <1>5, <2>2, <2>6 DEF Place
  <2> QED
    BY <1>1, <1>5, <2>1, <2>7 DEF Silent
<1> QED
  BY <1>1, <1>2, <1>4, <1>5

LEMMA TypedReadGpio ==
  ASSUME TypeInv, NEW t \in Thread, Place(t), ReadGpio(t)
  PROVE  /\ Typed(t)' /\ Place(t)' /\ data' = data
         /\ pc'[t] \in {"gpio_write", "present", "gpio", "done"}
         /\ pc'[t] = "gpio_write" =>
              /\ mod'[t] = mod[t]
              /\ lines'[t] = Modified(gpio[mod[t]], req[t].gpio)
              /\ gpio' = gpio
         /\ Silent(t) \/ \E cause : Says(t, Answer(t, cause, Nothing))
         /\ req[t].op \in {"get_gpio", "set_gpio"}
<1> DEFINE s == Modified(gpio[mod[t]], req[t].gpio)
<1>1. /\ pc[t] = "gpio" /\ req' = req /\ at' = at /\ data' = data /\ gpio' = gpio
      /\ \/ (\E cause : Respond(t, cause, Nothing)) /\ lines' = lines
         \/ /\ req[t].op # "get_gpio"
            /\ lines' = [lines EXCEPT ![t] = s]
            /\ pc' = [pc EXCEPT ![t] = "gpio_write"]
            /\ UNCHANGED <<mod, out>>
  BY DEF ReadGpio
<1>2. /\ pc[t] \in Step /\ Typed(t) /\ req[t].op \in {"get_gpio", "set_gpio"}
  BY <1>1, ThreadTyped DEF Place, Step
<1>3. ASSUME NEW cause, Respond(t, cause, Nothing), lines' = lines
      PROVE  /\ Typed(t)' /\ Place(t)' /\ pc'[t] \in {"present", "gpio", "done"}
             /\ Says(t, Answer(t, cause, Nothing))
  <2>1. /\ pc'[t] \in {"present", "gpio", "done"} /\ mod'[t] \in 0 .. NModules
        /\ Place(t)' /\ Says(t, Answer(t, cause, Nothing))
    BY <1>1, <1>2, <1>3, Answering
  <2> QED
    BY <1>1, <1>2, <1>3, <2>1 DEF Typed, Step
<1>4. ASSUME req[t].op # "get_gpio", lines' = [lines EXCEPT ![t] = s],
             pc' = [pc EXCEPT ![t] = "gpio_write"], UNCHANGED <<mod, out>>
      PROVE  /\ Typed(t)' /\ Place(t)' /\ pc'[t] = "gpio_write" /\ Silent(t)
             /\ mod'[t] = mod[t] /\ lines'[t] = s
  <2>1. pc'[t] = "gpio_write" /\ lines'[t] = s
    BY <1>4, OwnFunctions
  <2>2. s \in SUBSET Line
    BY DEF Modified
  <2>3. Typed(t)'
    BY <1>1, <1>2, <1>4, <2>1, <2>2 DEF Typed, Step
  <2>4. Verdict(req[t])' = Verdict(req[t])
    BY <1>1 DEF Verdict
  <2>5. Place(t)'
    BY <1>1, <1>2, <1>4, <2>1, <2>4 DEF Place
  <2> QED
    BY <1>4, <2>1, <2>3, <2>5 DEF Silent
<1> QED
  BY <1>1, <1>2, <1>3, <1>4

LEMMA TypedWriteGpio ==
  ASSUME TypeInv, NEW t \in Thread, Place(t), WriteGpio(t)
  PROVE  /\ Typed(t)' /\ Place(t)' /\ data' = data
         /\ pc'[t] \in {"present", "gpio", "done"}
         /\ \E cause : Says(t, Answer(t, cause, Nothing))
         /\ req[t].op = "set_gpio"
<1>1. /\ pc[t] = "gpio_write" /\ req' = req /\ at' = at /\ data' = data /\ lines' = lines
      /\ \E cause : Respond(t, cause, Nothing)
  BY DEF WriteGpio
<1>2. /\ pc[t] \in Step /\ Typed(t) /\ req[t].op = "set_gpio"
  BY <1>1, ThreadTyped DEF Place, Step
<1>3. PICK cause : Respond(t, cause, Nothing)
  BY <1>1
<1>4. /\ pc'[t] \in {"present", "gpio", "done"} /\ mod'[t] \in 0 .. NModules
      /\ Place(t)' /\ Says(t, Answer(t, cause, Nothing))
  BY <1>1, <1>2, <1>3, Answering
<1> QED
  BY <1>1, <1>2, <1>4 DEF Typed, Step

-----------------------------------------------------------------------------
(* Types and places, in every step.                                         *)

LEMMA TypedThread ==
  ASSUME TypeInv, PlaceInv, NEW t \in Thread, Reading(t), Rpc(t)
  PROVE  /\ Typed(t)' /\ Place(t)'
         /\ Silent(t) \/ \E e : Says(t, e)
<1>1. Place(t)
  BY DEF PlaceInv
<1>2. CASE Serve(t)
  BY <1>1, <1>2, TypedServe
<1>3. CASE CheckPresent(t)
  BY <1>1, <1>3, TypedCheckPresent
<1>4. CASE ReadPage(t)
  BY <1>1, <1>4, TypedReadPage
<1>5. CASE ReadByte(t)
  BY <1>1, <1>5, TypedReadByte
<1>6. CASE WriteByte(t)
  BY <1>6, TypedWriteByte
<1>7. CASE ReadInfoPage(t)
  BY <1>1, <1>7, TypedReadInfoPage
<1>8. CASE ReadGpio(t)
  BY <1>1, <1>8, TypedReadGpio
<1>9. CASE WriteGpio(t)
  BY <1>1, <1>9, TypedWriteGpio
<1> QED
  BY <1>2, <1>3, <1>4, <1>5, <1>6, <1>7, <1>8, <1>9 DEF Rpc

\* What a thread's step leaves of the others.
LEMMA OthersKept ==
  ASSUME TypeInv, NEW t \in Thread, Own(t), NEW u \in Thread, u # t
  PROVE  /\ pc'[u] = pc[u] /\ mod'[u] = mod[u] /\ at'[u] = at[u]
         /\ data'[u] = data[u] /\ lines'[u] = lines[u] /\ req' = req
<1>1. /\ pc' = [pc EXCEPT ![t] = pc'[t]] /\ mod' = [mod EXCEPT ![t] = mod'[t]]
      /\ at' = [at EXCEPT ![t] = at'[t]] /\ data' = [data EXCEPT ![t] = data'[t]]
      /\ lines' = [lines EXCEPT ![t] = lines'[t]] /\ req' = req
  BY DEF Own
<1>2. /\ pc = [v \in Thread |-> pc[v]] /\ mod = [v \in Thread |-> mod[v]]
      /\ at = [v \in Thread |-> at[v]] /\ data = [v \in Thread |-> data[v]]
      /\ lines = [v \in Thread |-> lines[v]]
  BY OwnFunctions
<1>3. ASSUME NEW f, NEW g, f = [v \in Thread |-> f[v]], g = [f EXCEPT ![t] = g[t]]
      PROVE  g[u] = f[u]
  BY <1>3
<1> QED
  BY <1>1, <1>2, <1>3

LEMMA OutKept ==
  ASSUME TypeInv, NEW t \in Thread, Silent(t) \/ \E e : Says(t, e)
  PROVE  /\ DOMAIN out' = Thread
         /\ \A u \in Thread : out'[u] \in Seq(Responses(u)')
         /\ \A u \in Thread \ {t} : Responses(u)' = Responses(u)
<1>1. CASE Silent(t)
  BY <1>1, StillSilent DEF Silent
<1>2. ASSUME NEW e, Says(t, e)
      PROVE  /\ DOMAIN out' = Thread
             /\ \A u \in Thread : out'[u] \in Seq(Responses(u)')
             /\ \A u \in Thread \ {t} : Responses(u)' = Responses(u)
  <2>1. /\ DOMAIN out' = Thread /\ \A u \in Thread \ {t} : out'[u] = out[u]
        /\ out'[t] \in Seq(Responses(t)')
    BY <1>2 DEF Says
  <2>2. \A u \in Thread \ {t} : Responses(u)' = Responses(u)
    BY <2>1 DEF Responses
  <2>3. \A u \in Thread : out[u] \in Seq(Responses(u))
    BY DEF TypeInv
  <2>4. \A u \in Thread \ {t} : out'[u] \in Seq(Responses(u)')
    BY <2>1, <2>2, <2>3
  <2> QED
    BY <2>1, <2>2, <2>4
<1> QED
  BY <1>1, <1>2

LEMMA TypeNext ==
  ASSUME TypeInv, PlaceInv, ReadInv, [Next]_vars
  PROVE  TypeInv' /\ PlaceInv'
<1>1. /\ present' \subseteq Module
      /\ gpio' \in [Module -> SUBSET Line]
      /\ memory' \in [Module -> [Memory -> Thread \cup {NoThread}]]
      /\ \A w \in late' : WriteOf(w)'
      /\ req' \in [Thread -> Request]
  BY CardTyped
<1>2. CASE ~\E t \in Thread : Rpc(t)
  <2>1. UNCHANGED <<pc, mod, at, data, lines, out>> /\ req' = req
    BY <1>2, OtherSteps, CardSteps
  <2>2. TypeInv'
    <3>1. /\ pc' \in [Thread -> Step \cup {"idle", "done"}]
          /\ mod' \in [Thread -> 0 .. NModules]
          /\ at' \in [Thread -> [upper : BOOLEAN, page_offset : 0 .. Width - 1,
                                 data_count : 0 .. Width - 1, data_offset : 0 .. Width]]
          /\ data' = [t \in Thread |-> data'[t]]
          /\ lines' \in [Thread -> SUBSET Line]
      BY <2>1 DEF TypeInv
    <3>2. UNCHANGED out
      BY <2>1
    <3>3. DOMAIN out' = Thread /\ \A t \in Thread : out'[t] \in Seq(Responses(t)')
      <4>1. DOMAIN out' = Thread
        BY <3>2 DEF TypeInv
      <4>2. ASSUME NEW t \in Thread PROVE out'[t] \in Seq(Responses(t)')
        BY <3>2, StillSilent
      <4> QED
        BY <4>1, <4>2
    <3> QED
      BY <1>1, <3>1, <3>3 DEF TypeInv
  <2>3. PlaceInv'
    BY <2>1 DEF PlaceInv, Place, Verdict, Count
  <2> QED
    BY <2>2, <2>3
<1>3. ASSUME NEW t \in Thread, Rpc(t)
      PROVE  TypeInv' /\ PlaceInv'
  <2>1. Own(t)
    BY <1>3, OwnOfThread
  <2>2. /\ Typed(t)' /\ Place(t)' /\ (Silent(t) \/ \E e : Says(t, e))
    BY <1>3, TypedThread DEF ReadInv
  <2>3. /\ pc' = [pc EXCEPT ![t] = pc'[t]] /\ mod' = [mod EXCEPT ![t] = mod'[t]]
        /\ at' = [at EXCEPT ![t] = at'[t]] /\ data' = [data EXCEPT ![t] = data'[t]]
        /\ lines' = [lines EXCEPT ![t] = lines'[t]] /\ req' = req
    BY <2>1 DEF Own
  <2>4. pc' \in [Thread -> Step \cup {"idle", "done"}]
    BY <2>2, <2>3 DEF TypeInv, Typed
  <2>5. mod' \in [Thread -> 0 .. NModules]
    BY <2>2, <2>3 DEF TypeInv, Typed
  <2>6. at' \in [Thread -> [upper : BOOLEAN, page_offset : 0 .. Width - 1,
                            data_count : 0 .. Width - 1, data_offset : 0 .. Width]]
    BY <2>2, <2>3 DEF TypeInv, Typed
  <2>7. data' = [u \in Thread |-> data'[u]]
    <3>1. data = [u \in Thread |-> data[u]]
      BY DEF TypeInv
    <3> QED
      BY <2>3, <3>1
  <2>8. lines' \in [Thread -> SUBSET Line]
    BY <2>2, <2>3 DEF TypeInv, Typed
  <2>9. DOMAIN out' = Thread /\ \A u \in Thread : out'[u] \in Seq(Responses(u)')
    BY <2>2, OutKept
  <2>10. TypeInv'
    BY <1>1, <2>4, <2>5, <2>6, <2>7, <2>8, <2>9 DEF TypeInv
  <2>11. ASSUME NEW u \in Thread, u # t
         PROVE  Place(u)'
    <3>1. /\ pc'[u] = pc[u] /\ mod'[u] = mod[u] /\ at'[u] = at[u] /\ req' = req
      BY <2>1, <2>11, OthersKept
    <3>2. Place(u)
      BY DEF PlaceInv
    <3>3. Verdict(req[u])' = Verdict(req[u]) /\ Count(req[u])' = Count(req[u])
      BY <3>1 DEF Verdict, Count
    <3> QED
      BY <3>1, <3>2, <3>3 DEF Place
  <2>12. PlaceInv'
    BY <2>2, <2>11 DEF PlaceInv
  <2> QED
    BY <2>10, <2>12
<1> QED
  BY <1>2, <1>3

-----------------------------------------------------------------------------
(* Reads: the pages, and the answers.                                       *)

\* The answers that a thread has given, after one more.
LEMMA AnswerAdded ==
  ASSUME NEW t \in Thread, NEW cause, NEW read, req' = req,
         \A r \in Responses(t) : ReadAnswer(t, r),
         Says(t, Answer(t, cause, read)),
         req[t].op = "get_mem" /\ cause = "EC_OK" =>
           /\ DOMAIN read = 0 .. Count(req[t]) - 1
           /\ AsAsked(req[t], mod[t], read)
  PROVE  \A r \in Responses(t)' : ReadAnswer(t, r)'
<1> DEFINE e == Answer(t, cause, read)
<1>1. Responses(t)' \subseteq Responses(t) \cup {e}
  BY DEF Says
<1>2. \A r : ReadAnswer(t, r) => ReadAnswer(t, r)'
  BY DEF ReadAnswer, AsAsked, Inside, Count
<1>3. ReadAnswer(t, e)
  <2>1. /\ e.mod_id = mod[t] /\ e.data = read
        /\ req[t].op = "get_mem" => e.error_code = cause
    BY DEF Answer
  <2> QED
    BY <2>1 DEF ReadAnswer
<1> HIDE DEF e
<1> QED
  BY <1>1, <1>2, <1>3

LEMMA SilentAdds ==
  ASSUME TypeInv, NEW t \in Thread, req' = req, Silent(t),
         \A r \in Responses(t) : ReadAnswer(t, r)
  PROVE  \A r \in Responses(t)' : ReadAnswer(t, r)'
<1>1. Responses(t)' = Responses(t)
  BY DEF Silent, Responses
<1>2. \A r : ReadAnswer(t, r) => ReadAnswer(t, r)'
  BY DEF ReadAnswer, AsAsked, Inside, Count
<1> QED
  BY <1>1, <1>2

\* A step that reads no page.
LEMMA NotReading ==
  ASSUME NEW t \in Thread, Reading(t), data'[t] = data[t], pc'[t] # "page"
  PROVE  Reading(t)'
BY DEF Reading

\* The refusal of a request, and an answer to another one, say nothing of bytes.
LEMMA OtherAnswer ==
  ASSUME TypeInv, NEW t \in Thread, NEW e, req' = req,
         \A r \in Responses(t) : ReadAnswer(t, r),
         Silent(t) \/ Says(t, e),
         req[t].op # "get_mem" \/ e.error_code # "EC_OK"
  PROVE  \A r \in Responses(t)' : ReadAnswer(t, r)'
<1>1. \A r : ReadAnswer(t, r) => ReadAnswer(t, r)'
  BY DEF ReadAnswer, AsAsked, Inside, Count
<1>2. ReadAnswer(t, e)
  BY DEF ReadAnswer
<1>3. CASE Silent(t)
  BY <1>3, SilentAdds
<1>4. CASE Says(t, e)
  BY <1>1, <1>2, <1>4 DEF Says
<1> QED
  BY <1>3, <1>4

LEMMA ReadServe ==
  ASSUME TypeInv, NEW t \in Thread, Place(t), Reading(t), Serve(t),
         \A r \in Responses(t) : ReadAnswer(t, r)
  PROVE  Reading(t)' /\ \A r \in Responses(t)' : ReadAnswer(t, r)'
<1>1. /\ pc'[t] \in {"present", "gpio", "done"}
      /\ Silent(t) \/ \E v : v # "EC_OK" /\ Says(t, [error_code |-> v])
  BY TypedServe
<1>2. req' = req /\ data' = data
  BY DEF Serve
<1>3. Reading(t)'
  BY <1>1, <1>2, NotReading
<1>4. ASSUME Silent(t) PROVE \A r \in Responses(t)' : ReadAnswer(t, r)'
  BY <1>2, <1>4, SilentAdds
<1>5. ASSUME NEW v, v # "EC_OK", Says(t, [error_code |-> v])
      PROVE  \A r \in Responses(t)' : ReadAnswer(t, r)'
  <2> DEFINE e == [error_code |-> v]
  <2>1. e.error_code # "EC_OK" /\ Says(t, e)
    BY <1>5
  <2> HIDE DEF e
  <2> QED
    BY <1>2, <2>1, OtherAnswer
<1> QED
  BY <1>1, <1>3, <1>4, <1>5

LEMMA ReadCheckPresent ==
  ASSUME TypeInv, NEW t \in Thread, Place(t), Reading(t), CheckPresent(t),
         \A r \in Responses(t) : ReadAnswer(t, r)
  PROVE  Reading(t)' /\ \A r \in Responses(t)' : ReadAnswer(t, r)'
<1>1. /\ Place(t)' /\ DOMAIN data'[t] = {}
      /\ \/ /\ pc'[t] \in {"present", "gpio", "done"}
            /\ \/ Silent(t)
               \/ \E cause : /\ Says(t, Answer(t, cause, Nothing))
                             /\ cause = "EC_OK" =>
                                  \/ req[t].op = "get_status"
                                  \/ req[t].op = "set_mem" /\ req[t].count = 0
         \/ /\ pc'[t] \in {"page", "byte", "write", "info"}
            /\ Silent(t) /\ mod'[t] = mod[t]
            /\ at'[t] = Start(req[t])
  BY TypedCheckPresent
<1>2. req' = req
  BY DEF CheckPresent
<1>3. Reading(t)'
  <2>1. DOMAIN data'[t] \subseteq 0 .. Width - 1
    BY <1>1
  <2>2. ASSUME pc'[t] = "page"
        PROVE  /\ AtFirstPage(req[t], at[t])'
               /\ DOMAIN data'[t] = 0 .. at'[t].data_offset - 1
               /\ AsAsked(req[t], mod[t], data[t])'
    <3>1. at'[t] = Start(req[t]) /\ req[t].op = "get_mem"
      BY <1>1, <1>2, <2>2 DEF Place, Step
    <3>2. AtFirstPage(req[t], Start(req[t]))
      BY <3>1, StartTyped, ThreadTyped
    <3>3. AtFirstPage(req[t], at[t])'
      BY <1>2, <3>1, <3>2 DEF AtFirstPage, First, Left, Count
    <3>4. at'[t].data_offset = 0 /\ 0 .. 0 - 1 = {}
      BY <3>1 DEF Start
    <3>5. AsAsked(req[t], mod[t], data[t])'
      BY <1>1 DEF AsAsked
    <3> QED
      BY <1>1, <3>3, <3>4, <3>5
  <2> QED
    BY <2>1, <2>2 DEF Reading
<1>4. ASSUME Silent(t) PROVE \A r \in Responses(t)' : ReadAnswer(t, r)'
  BY <1>2, <1>4, SilentAdds
<1>5. ASSUME NEW cause, Says(t, Answer(t, cause, Nothing)),
             cause = "EC_OK" => req[t].op # "get_mem"
      PROVE  \A r \in Responses(t)' : ReadAnswer(t, r)'
  BY <1>2, <1>5, AnswerAdded
<1>6. \/ Silent(t)
      \/ \E cause : /\ Says(t, Answer(t, cause, Nothing))
                    /\ cause = "EC_OK" => req[t].op # "get_mem"
  BY <1>1
<1> QED
  BY <1>3, <1>4, <1>5, <1>6

LEMMA ReadReadPage ==
  ASSUME TypeInv, NEW t \in Thread, Place(t), Reading(t), ReadPage(t),
         \A r \in Responses(t) : ReadAnswer(t, r)
  PROVE  Reading(t)' /\ \A r \in Responses(t)' : ReadAnswer(t, r)'
<1>1. /\ Reading(t)'
      /\ \/ Silent(t)
         \/ \E cause, read :
              /\ Says(t, Answer(t, cause, read))
              /\ cause = "EC_OK" => /\ DOMAIN read = 0 .. Count(req[t]) - 1
                                    /\ AsAsked(req[t], mod[t], read)
  BY TypedReadPage
<1>2. req' = req
  BY DEF ReadPage
<1>3. ASSUME Silent(t) PROVE \A r \in Responses(t)' : ReadAnswer(t, r)'
  BY <1>2, <1>3, SilentAdds
<1>4. ASSUME NEW cause, NEW read, Says(t, Answer(t, cause, read)),
             cause = "EC_OK" => /\ DOMAIN read = 0 .. Count(req[t]) - 1
                                /\ AsAsked(req[t], mod[t], read)
      PROVE  \A r \in Responses(t)' : ReadAnswer(t, r)'
  BY <1>2, <1>4, AnswerAdded
<1> QED
  BY <1>1, <1>3, <1>4

LEMMA ReadReadByte ==
  ASSUME TypeInv, NEW t \in Thread, Place(t), Reading(t), ReadByte(t),
         \A r \in Responses(t) : ReadAnswer(t, r)
  PROVE  Reading(t)' /\ \A r \in Responses(t)' : ReadAnswer(t, r)'
<1>1. /\ data' = data /\ pc'[t] \in {"present", "gpio", "done"}
      /\ \E cause, read :
           /\ Says(t, Answer(t, cause, read))
           /\ cause = "EC_OK" => /\ DOMAIN read = 0 .. Count(req[t]) - 1
                                 /\ AsAsked(req[t], mod[t], read)
  BY TypedReadByte
<1>2. req' = req
  BY DEF ReadByte
<1>3. Reading(t)'
  BY <1>1, NotReading
<1>4. ASSUME NEW cause, NEW read, Says(t, Answer(t, cause, read)),
             cause = "EC_OK" => /\ DOMAIN read = 0 .. Count(req[t]) - 1
                                /\ AsAsked(req[t], mod[t], read)
      PROVE  \A r \in Responses(t)' : ReadAnswer(t, r)'
  BY <1>2, <1>4, AnswerAdded
<1> QED
  BY <1>1, <1>3, <1>4

\* The handlers of other requests.
LEMMA ReadOthers ==
  ASSUME TypeInv, PlaceInv, NEW t \in Thread, Reading(t),
         \A r \in Responses(t) : ReadAnswer(t, r),
         WriteByte(t) \/ ReadInfoPage(t) \/ ReadGpio(t) \/ WriteGpio(t)
  PROVE  Reading(t)' /\ \A r \in Responses(t)' : ReadAnswer(t, r)'
<1>1. Place(t)
  BY DEF PlaceInv
<1>2. /\ data' = data /\ pc'[t] # "page" /\ req[t].op # "get_mem"
      /\ Silent(t) \/ \E cause : Says(t, Answer(t, cause, Nothing))
  <2>1. CASE WriteByte(t)
    <3>1. pc[t] = "write"
      BY <2>1, TypedWriteByte
    <3>2. req[t].op = "set_mem"
      BY <3>1, PlaceOfWrite
    <3> QED
      BY <2>1, <3>2, TypedWriteByte
  <2>2. CASE ReadInfoPage(t)
    BY <1>1, <2>2, TypedReadInfoPage
  <2>3. CASE ReadGpio(t)
    BY <1>1, <2>3, TypedReadGpio
  <2>4. CASE WriteGpio(t)
    BY <1>1, <2>4, TypedWriteGpio
  <2> QED
    BY <2>1, <2>2, <2>3, <2>4
<1>3. Rpc(t)
  BY DEF Rpc
<1>4. req' = req
  BY <1>3, OwnOfThread DEF Own
<1>5. Reading(t)'
  BY <1>2, NotReading
<1> QED
  BY <1>2, <1>4, <1>5, OtherAnswer, SilentAdds

LEMMA ReadNext ==
  ASSUME TypeInv, PlaceInv, ReadInv, AnswersInv, [Next]_vars
  PROVE  ReadInv' /\ AnswersInv'
<1>1. req' = req
  BY CardSteps
<1>2. \A u \in Thread : \A r : ReadAnswer(u, r) => ReadAnswer(u, r)'
  BY <1>1 DEF ReadAnswer, AsAsked, Inside, Count
<1>3. CASE ~\E t \in Thread : Rpc(t)
  <2>1. UNCHANGED <<pc, mod, at, data, lines, out>>
    BY <1>3, OtherSteps
  <2>2. ReadInv'
    BY <1>1, <2>1 DEF ReadInv, Reading, AtFirstPage, AtSecondPage, AsAsked, Inside,
                      First, Left, Count
  <2>3. \A u \in Thread : Responses(u)' = Responses(u)
    BY <2>1 DEF Responses
  <2>4. AnswersInv'
    BY <1>2, <2>3 DEF AnswersInv
  <2> QED
    BY <2>2, <2>4
<1>4. ASSUME NEW t \in Thread, Rpc(t)
      PROVE  ReadInv' /\ AnswersInv'
  <2>1. /\ Place(t) /\ Reading(t) /\ \A r \in Responses(t) : ReadAnswer(t, r)
    BY DEF PlaceInv, ReadInv, AnswersInv
  <2>2. Reading(t)' /\ \A r \in Responses(t)' : ReadAnswer(t, r)'
    BY <1>4, <2>1, ReadServe, ReadCheckPresent, ReadReadPage, ReadReadByte, ReadOthers
       DEF Rpc
  <2>3. Own(t)
    BY <1>4, OwnOfThread
  <2>4. Silent(t) \/ \E e : Says(t, e)
    BY <1>4, <2>1, TypedThread
  <2>5. \A u \in Thread \ {t} : Responses(u)' = Responses(u)
    BY <2>4, OutKept
  <2>6. ASSUME NEW u \in Thread, u # t
        PROVE  Reading(u)' /\ \A r \in Responses(u)' : ReadAnswer(u, r)'
    <3>1. /\ pc'[u] = pc[u] /\ mod'[u] = mod[u] /\ at'[u] = at[u]
          /\ data'[u] = data[u] /\ req'[u] = req[u]
      BY <2>3, <2>6, OthersKept
    <3>2. Reading(u) /\ \A r \in Responses(u) : ReadAnswer(u, r)
      BY DEF ReadInv, AnswersInv
    <3>3. Reading(u)'
      BY <3>1, <3>2 DEF Reading, AtFirstPage, AtSecondPage, AsAsked, Inside, First,
                        Left, Count
    <3>4. \A r \in Responses(u)' : ReadAnswer(u, r)'
      BY <1>2, <2>5, <2>6, <3>2
    <3> QED
      BY <3>3, <3>4
  <2> QED
    BY <2>2, <2>6 DEF ReadInv, AnswersInv
<1> QED
  BY <1>3, <1>4

-----------------------------------------------------------------------------
(* Writes: a byte that is written stays written, so what is in front of a   *)
(* write that is tried is so when it is performed.                          *)

LEMMA StaysChanged ==
  ASSUME TypeInv, PlaceInv, [Next]_vars, NEW m \in Module, NEW a \in Memory,
         Changed(m, a)
  PROVE  Changed(m, a)'
<1>1. memory \in [Module -> [Memory -> Thread \cup {NoThread}]]
  BY DEF TypeInv
<1>2. CASE memory' = memory
  BY <1>2 DEF Changed
<1>3. ASSUME NEW w, Attempt(w), w.kind = "byte",
             memory' = [memory EXCEPT ![w.mod][w.address] = w.by]
      PROVE  Changed(m, a)'
  <2>1. w.by \in Thread /\ w.by # NoThread /\ w.mod \in Module /\ w.address \in Memory
    BY <1>3, AttemptIsOf, ModuleRpcAssumption DEF WriteOf
  <2>2. memory'[m][a] = memory[m][a] \/ memory'[m][a] = w.by
    BY <1>1, <1>3, <2>1
  <2> QED
    BY <2>1, <2>2 DEF Changed
<1>4. Quiet \/ \E w : Attempt(w) /\ Tried(w)
  BY CardSteps
<1> QED
  BY <1>2, <1>3, <1>4 DEF Quiet, Tried, Effect

LEMMA StaysWritten ==
  ASSUME TypeInv, PlaceInv, [Next]_vars, NEW t \in Thread, NEW m \in Module, NEW n \in Nat,
         WrittenTo(t, m, n), \A k \in 0 .. n - 1 : Asked(t, k) \in Memory
  PROVE  WrittenTo(t, m, n)'
<1>1. req' = req
  BY CardSteps
<1>2. ASSUME NEW k \in 0 .. n - 1
      PROVE  Changed(m, Asked(t, k))'
  <2>1. Changed(m, Asked(t, k)) /\ Asked(t, k) \in Memory
    BY DEF WrittenTo
  <2>2. Asked(t, k)' = Asked(t, k)
    BY <1>1 DEF Asked
  <2>3. ASSUME NEW a \in Memory, Changed(m, a) PROVE Changed(m, a)'
    BY <2>3, StaysChanged
  <2> QED
    BY <2>1, <2>2, <2>3 DEF Changed
<1> QED
  BY <1>2 DEF WrittenTo

LEMMA StaysAllowed ==
  ASSUME TypeInv, PlaceInv, [Next]_vars, NEW t \in Thread, NEW m \in Module,
         NEW a \in Memory, MayWrite(t, m, a)
  PROVE  MayWrite(t, m, a)'
<1>1. PICK n \in 0 .. req[t].count - 1 : a = Asked(t, n) /\ WrittenTo(t, m, n)
  BY DEF MayWrite
<1>2. req[t].count \in Nat
  BY RequestFacts, Sizes DEF TypeInv
<1>3. n \in Nat /\ \A k \in 0 .. n - 1 : k \in 0 .. n
  BY <1>2
<1>4. \A k \in 0 .. n - 1 : Asked(t, k) \in Memory
  BY <1>1, <1>3, MemoryIsAsked
<1>5. WrittenTo(t, m, n)'
  BY <1>1, <1>3, <1>4, StaysWritten
<1>6. req' = req
  BY CardSteps
<1> QED
  BY <1>1, <1>5, <1>6 DEF MayWrite, Asked

LEMMA AttemptIsAllowed ==
  ASSUME TypeInv, PlaceInv, FrontInv, NEW w, Attempt(w), w.kind = "byte"
  PROVE  MayWrite(w.by, w.mod, w.address)
<1>1. CASE w \in late
  BY <1>1 DEF FrontInv
<1>2. ASSUME NEW t \in Thread, pc[t] = "write", w = ByteWrite(t)
      PROVE  MayWrite(w.by, w.mod, w.address)
  <2>1. WrittenTo(t, mod[t], at[t].data_offset)
    BY <1>2 DEF FrontInv
  <2>2. at[t].data_offset \in 0 .. req[t].count - 1
    BY <1>2, PlaceOfWrite
  <2>3. /\ w.by = t /\ w.mod = mod[t]
        /\ w.address = Asked(t, at[t].data_offset)
    BY <1>2 DEF ByteWrite, Asked
  <2> QED
    BY <2>1, <2>2, <2>3 DEF MayWrite
<1>3. ASSUME NEW t \in Thread, w = GpioWrite(t)
      PROVE  FALSE
  BY <1>3 DEF GpioWrite
<1> QED
  BY <1>1, <1>2, <1>3 DEF Attempt

\* The memory and the late writes.
LEMMA FrontOfCard ==
  ASSUME TypeInv, PlaceInv, FrontInv, [Next]_vars
  PROVE  /\ \A w \in late' : w.kind = "byte" => MayWrite(w.by, w.mod, w.address)'
         /\ \A t \in Thread, m \in Module, a \in Memory : memory'[m][a] = t =>
              /\ req'[t].op = "set_mem" /\ req'[t].mod \in {-1, m}
              /\ MayWrite(t, m, a)'
<1>1. req' = req /\ (Quiet \/ \E w : Attempt(w) /\ Tried(w))
  BY CardSteps
<1>2. ASSUME NEW w, Attempt(w), w.kind = "byte"
      PROVE  /\ w.by \in Thread /\ w.mod \in Module /\ w.address \in Memory
             /\ req[w.by].op = "set_mem" /\ req[w.by].mod \in {-1, w.mod}
             /\ MayWrite(w.by, w.mod, w.address)'
  <2>1. /\ w.by \in Thread /\ w.mod \in Module /\ w.address \in Memory
        /\ req[w.by].op = "set_mem" /\ req[w.by].mod \in {-1, w.mod}
    BY <1>2, AttemptIsOf DEF WriteOf
  <2> QED
    BY <1>2, <2>1, AttemptIsAllowed, StaysAllowed
<1>3. ASSUME NEW w \in late', w.kind = "byte"
      PROVE  MayWrite(w.by, w.mod, w.address)'
  <2>1. Attempt(w)
    BY <1>1, <1>3 DEF Quiet, Tried, Attempt
  <2> QED
    BY <1>2, <1>3, <2>1
<1>4. ASSUME NEW t \in Thread, NEW m \in Module, NEW a \in Memory, memory'[m][a] = t
      PROVE  /\ req'[t].op = "set_mem" /\ req'[t].mod \in {-1, m}
             /\ MayWrite(t, m, a)'
  <2>1. CASE memory[m][a] = t
    <3>1. /\ req[t].op = "set_mem" /\ req[t].mod \in {-1, m}
          /\ MayWrite(t, m, a)
      BY <2>1 DEF FrontInv
    <3> QED
      BY <1>1, <3>1, StaysAllowed
  <2>2. CASE memory[m][a] # t
    <3>1. memory' # memory
      BY <1>4, <2>2
    <3>2. PICK w : /\ Attempt(w) /\ w.kind = "byte"
                   /\ memory' = [memory EXCEPT ![w.mod][w.address] = w.by]
      BY <1>1, <3>1 DEF Quiet, Tried, Effect
    <3>3. memory \in [Module -> [Memory -> Thread \cup {NoThread}]]
      BY DEF TypeInv
    <3>4. /\ w.by \in Thread /\ w.mod \in Module /\ w.address \in Memory
          /\ req[w.by].op = "set_mem" /\ req[w.by].mod \in {-1, w.mod}
          /\ MayWrite(w.by, w.mod, w.address)'
      BY <1>2, <3>2
    <3>5. m = w.mod /\ a = w.address /\ t = w.by
      BY <1>4, <2>2, <3>2, <3>3, <3>4
    <3> QED
      BY <1>1, <3>4, <3>5
  <2> QED
    BY <2>1, <2>2
<1> QED
  BY <1>3, <1>4

\* A byte that is written in this step.
LEMMA OneMoreWritten ==
  ASSUME TypeInv, PlaceInv, FrontInv, [Next]_vars, NEW t \in Thread, pc[t] = "write",
         Effect(ByteWrite(t)), NEW m, NEW b, mod[t] = m, at[t].data_offset = b
  PROVE  /\ m \in Module /\ b \in Nat
         /\ WrittenTo(t, m, b + 1)'
<1>1. /\ m \in Module /\ b \in 0 .. req[t].count - 1
      /\ Fits(t)
      /\ req[t].offset \in Nat /\ req[t].count \in 0 .. Width
  BY PlaceOfWrite
<1>2. req' = req
  BY CardSteps
<1>3. b \in Nat /\ \A k \in 0 .. b : Asked(t, k) \in Memory
  <2>1. b \in Nat /\ \A k \in 0 .. b : k \in Nat /\ req[t].offset + k <= Width - 1
    BY <1>1, Sizes DEF Fits
  <2> QED
    BY <1>1, <2>1, AskedIsMemory DEF Fits
<1>4. WrittenTo(t, m, b)
  BY DEF FrontInv
<1>5. WrittenTo(t, m, b)'
  BY <1>1, <1>3, <1>4, StaysWritten
<1>6. Asked(t, b) \in Memory
  BY <1>3
<1>7. memory \in [Module -> [Memory -> Thread \cup {NoThread}]] /\ t # NoThread
  BY ModuleRpcAssumption DEF TypeInv
<1>8. memory' = [memory EXCEPT ![m][Asked(t, b)] = t]
  BY DEF Effect, ByteWrite, Asked
<1>9. memory'[m][Asked(t, b)] = t
  BY <1>1, <1>6, <1>7, <1>8
<1>10. Changed(m, Asked(t, b))'
  BY <1>2, <1>7, <1>9 DEF Changed, Asked
<1>11. \A k \in 0 .. (b + 1) - 1 : k \in 0 .. b - 1 \/ k = b
  BY <1>3
<1>12. WrittenTo(t, m, b + 1)'
  BY <1>5, <1>10, <1>11 DEF WrittenTo
<1> QED
  BY <1>1, <1>3, <1>12

Fronts(t) == pc[t] = "write" => WrittenTo(t, mod[t], at[t].data_offset)

FrontAnswer(t, s) ==
  req[t].op = "set_mem" /\ s.error_code = "EC_OK" =>
    /\ s.mod_id \in Module /\ Fits(t)
    /\ WrittenTo(t, s.mod_id, req[t].count)

LEMMA FrontInvParts ==
  FrontInv <=>
    /\ \A t \in Thread : Fronts(t)
    /\ \A w \in late : w.kind = "byte" => MayWrite(w.by, w.mod, w.address)
    /\ \A t \in Thread, m \in Module, a \in Memory : memory[m][a] = t =>
         /\ req[t].op = "set_mem" /\ req[t].mod \in {-1, m}
         /\ MayWrite(t, m, a)
    /\ \A t \in Thread : \A s \in Responses(t) : FrontAnswer(t, s)
BY DEF FrontInv, Fronts, FrontAnswer

LEMMA FrontKept ==
  ASSUME TypeInv, PlaceInv, FrontInv, [Next]_vars, NEW u \in Thread,
         pc'[u] = pc[u], mod'[u] = mod[u], at'[u] = at[u]
  PROVE  Fronts(u)'
<1> SUFFICES ASSUME pc[u] = "write"
             PROVE  WrittenTo(u, mod[u], at[u].data_offset)'
  BY DEF Fronts
<1>1. /\ mod[u] \in Module /\ at[u].data_offset \in 0 .. req[u].count - 1
      /\ Fits(u)
      /\ req[u].offset \in Nat /\ req[u].count \in 0 .. Width
  BY PlaceOfWrite
<1>2. PICK m \in Module, b \in Nat : m = mod[u] /\ b = at[u].data_offset
  BY <1>1, Sizes
<1>3. WrittenTo(u, m, b) /\ \A k \in 0 .. b - 1 : k \in 0 .. req[u].count - 1
  BY <1>1, <1>2, Sizes DEF FrontInv
<1>4. WrittenTo(u, m, b)'
  BY <1>1, <1>2, <1>3, FitsInMemory, StaysWritten
<1> QED
  BY <1>2, <1>4 DEF WrittenTo

LEMMA FrontAnswerKept ==
  ASSUME TypeInv, PlaceInv, [Next]_vars, NEW u \in Thread, NEW s, FrontAnswer(u, s)
  PROVE  FrontAnswer(u, s)'
<1>1. req' = req
  BY CardSteps
<1> SUFFICES ASSUME req[u].op = "set_mem", s.error_code = "EC_OK"
             PROVE  /\ s.mod_id \in Module /\ Fits(u)
                    /\ WrittenTo(u, s.mod_id, req[u].count)'
  BY <1>1 DEF FrontAnswer, Fits
<1>2. /\ s.mod_id \in Module /\ Fits(u)
      /\ WrittenTo(u, s.mod_id, req[u].count)
  BY DEF FrontAnswer
<1>3. req[u].count \in Nat
  BY RequestFacts, Sizes DEF TypeInv
<1>4. PICK n \in Nat : n = req[u].count
  BY <1>3
<1>5. WrittenTo(u, s.mod_id, n)'
  BY <1>2, <1>4, FitsInMemory, StaysWritten
<1> QED
  BY <1>1, <1>2, <1>4, <1>5 DEF WrittenTo, Fits

\* What a thread's own step says of the front.
LEMMA FrontOfThread ==
  ASSUME TypeInv, PlaceInv, ReadInv, FrontInv, [Next]_vars, NEW t \in Thread, Rpc(t)
  PROVE  /\ Fronts(t)'
         /\ \/ Silent(t)
            \/ \E e : Says(t, e) /\ FrontAnswer(t, e)'
<1>1. Place(t) /\ Reading(t) /\ req' = req
  BY CardSteps DEF PlaceInv, ReadInv
<1>2. ASSUME req[t].op # "set_mem", Silent(t) \/ \E e : Says(t, e)
      PROVE  Silent(t) \/ \E e : Says(t, e) /\ FrontAnswer(t, e)'
  BY <1>1, <1>2 DEF FrontAnswer
<1>3. CASE Serve(t)
  <2>1. /\ pc'[t] \in {"present", "gpio", "done"}
        /\ Silent(t) \/ \E v : v # "EC_OK" /\ Says(t, [error_code |-> v])
    BY <1>1, <1>3, TypedServe
  <2>2. Fronts(t)'
    BY <2>1 DEF Fronts
  <2>3. ASSUME NEW v, v # "EC_OK"
        PROVE  FrontAnswer(t, [error_code |-> v])'
    BY <2>3 DEF FrontAnswer
  <2> QED
    BY <2>1, <2>2, <2>3
<1>4. CASE CheckPresent(t)
  <2>1. /\ \/ /\ pc'[t] \in {"present", "gpio", "done"}
              /\ \/ Silent(t)
                 \/ \E cause : /\ Says(t, Answer(t, cause, Nothing))
                               /\ cause = "EC_OK" =>
                                    \/ req[t].op = "get_status"
                                    \/ req[t].op = "set_mem" /\ req[t].count = 0
           \/ /\ pc'[t] \in {"page", "byte", "write", "info"}
              /\ Silent(t) /\ mod'[t] = mod[t]
              /\ at'[t] = Start(req[t])
    BY <1>1, <1>4, TypedCheckPresent
  <2>2. Fronts(t)'
    <3>1. pc'[t] = "write" => at'[t].data_offset = 0 /\ 0 .. 0 - 1 = {}
      BY <2>1 DEF Start
    <3> QED
      BY <3>1 DEF Fronts, WrittenTo
  <2>3. ASSUME NEW cause, NEW e, e = Answer(t, cause, Nothing),
               cause = "EC_OK" => \/ req[t].op = "get_status"
                                  \/ req[t].op = "set_mem" /\ req[t].count = 0
        PROVE  FrontAnswer(t, e)'
    <3>1. /\ e.mod_id = mod[t]
          /\ req[t].op = "set_mem" => e.error_code = cause
      BY <2>3 DEF Answer
    <3>2. mod[t] \in Module /\ Verdict(req[t]) = "EC_OK"
      BY <1>1, <1>4 DEF CheckPresent, Place, Step
    <3>3. req[t].op = "set_mem" => Fits(t)
      BY <3>2, ThreadTyped, VerdictFacts DEF Fits
    <3>4. 0 .. 0 - 1 = {}
      OBVIOUS
    <3> QED
      BY <1>1, <2>3, <3>1, <3>2, <3>3, <3>4 DEF FrontAnswer, Fits, WrittenTo
  <2> QED
    BY <2>1, <2>2, <2>3
<1>5. CASE ReadPage(t)
  <2>1. /\ pc'[t] # "write" /\ req[t].op = "get_mem"
        /\ Silent(t) \/ \E e : Says(t, e)
    BY <1>1, <1>5, TypedReadPage
  <2> QED
    BY <1>2, <2>1 DEF Fronts
<1>6. CASE ReadByte(t)
  <2>1. /\ pc'[t] # "write" /\ req[t].op = "get_mem"
        /\ Silent(t) \/ \E e : Says(t, e)
    BY <1>1, <1>6, TypedReadByte
  <2> QED
    BY <1>2, <2>1 DEF Fronts
<1>7. CASE WriteByte(t)
  <2>1. /\ pc[t] = "write"
        /\ pc'[t] = "write" => /\ mod'[t] = mod[t] /\ Effect(ByteWrite(t))
                               /\ at'[t].data_offset = at[t].data_offset + 1
        /\ \/ Silent(t)
           \/ \E cause :
                /\ Says(t, Answer(t, cause, Nothing))
                /\ cause = "EC_OK" => /\ Effect(ByteWrite(t))
                                      /\ at[t].data_offset + 1 = req[t].count
    BY <1>7, TypedWriteByte
  <2>2. PICK m, b : mod[t] = m /\ at[t].data_offset = b
    OBVIOUS
  <2>3. Effect(ByteWrite(t)) => m \in Module /\ b \in Nat /\ WrittenTo(t, m, b + 1)'
    BY <2>1, <2>2, OneMoreWritten
  <2>4. Fronts(t)'
    BY <2>1, <2>2, <2>3 DEF Fronts, WrittenTo
  <2>5. ASSUME NEW cause, NEW e, e = Answer(t, cause, Nothing),
               cause = "EC_OK" => /\ Effect(ByteWrite(t))
                                  /\ at[t].data_offset + 1 = req[t].count
        PROVE  FrontAnswer(t, e)'
    <3>1. /\ e.mod_id = m
          /\ req[t].op = "set_mem" => e.error_code = cause
      BY <2>2, <2>5 DEF Answer
    <3>2. Fits(t)
      BY <2>1, PlaceOfWrite
    <3>3. cause = "EC_OK" => m \in Module /\ req[t].count = b + 1 /\ WrittenTo(t, m, b + 1)'
      BY <2>2, <2>3, <2>5
    <3> QED
      BY <1>1, <3>1, <3>2, <3>3 DEF FrontAnswer, Fits, WrittenTo
  <2> QED
    BY <2>1, <2>4, <2>5
<1>8. CASE ReadInfoPage(t)
  <2>1. /\ pc'[t] # "write" /\ req[t].op = "get_info"
        /\ Silent(t) \/ \E e : Says(t, e)
    BY <1>1, <1>8, TypedReadInfoPage
  <2> QED
    BY <1>2, <2>1 DEF Fronts
<1>9. CASE ReadGpio(t)
  <2>1. /\ pc'[t] # "write" /\ req[t].op # "set_mem"
        /\ Silent(t) \/ \E e : Says(t, e)
    BY <1>1, <1>9, TypedReadGpio
  <2> QED
    BY <1>2, <2>1 DEF Fronts
<1>10. CASE WriteGpio(t)
  <2>1. /\ pc'[t] # "write" /\ req[t].op = "set_gpio"
        /\ Silent(t) \/ \E e : Says(t, e)
    BY <1>1, <1>10, TypedWriteGpio
  <2> QED
    BY <1>2, <2>1 DEF Fronts
<1> QED
  BY <1>3, <1>4, <1>5, <1>6, <1>7, <1>8, <1>9, <1>10 DEF Rpc

LEMMA FrontNext ==
  ASSUME TypeInv, PlaceInv, ReadInv, FrontInv, [Next]_vars
  PROVE  FrontInv'
<1>1. /\ \A w \in late' : w.kind = "byte" => MayWrite(w.by, w.mod, w.address)'
      /\ \A t \in Thread, m \in Module, a \in Memory : memory'[m][a] = t =>
           /\ req'[t].op = "set_mem" /\ req'[t].mod \in {-1, m}
           /\ MayWrite(t, m, a)'
  BY FrontOfCard
<1>2. \A u \in Thread : \A s \in Responses(u) : FrontAnswer(u, s)
  BY FrontInvParts
<1>3. CASE ~\E t \in Thread : Rpc(t)
  <2>1. UNCHANGED <<pc, mod, at, data, lines, out>>
    BY <1>3, OtherSteps
  <2>2. \A u \in Thread : Fronts(u)'
    BY <2>1, FrontKept
  <2>3. \A u \in Thread : Responses(u)' = Responses(u)
    BY <2>1 DEF Responses
  <2>4. \A u \in Thread : \A s \in Responses(u)' : FrontAnswer(u, s)'
    BY <1>2, <2>3, FrontAnswerKept
  <2> QED
    BY <1>1, <2>2, <2>4 DEF FrontInv, Fronts, FrontAnswer
<1>4. ASSUME NEW t \in Thread, Rpc(t)
      PROVE  FrontInv'
  <2>1. /\ Fronts(t)'
        /\ Silent(t) \/ \E e : Says(t, e) /\ FrontAnswer(t, e)'
    BY <1>4, FrontOfThread
  <2>2. Own(t)
    BY <1>4, OwnOfThread
  <2>3. \A u \in Thread : Fronts(u)'
    <3>1. ASSUME NEW u \in Thread, u # t PROVE Fronts(u)'
      <4>1. pc'[u] = pc[u] /\ mod'[u] = mod[u] /\ at'[u] = at[u]
        BY <2>2, <3>1, OthersKept
      <4> QED
        BY <4>1, FrontKept
    <3> QED
      BY <2>1, <3>1
  <2>4. \A u \in Thread \ {t} : Responses(u)' = Responses(u)
    BY <2>1, OutKept
  <2>5. \A u \in Thread \ {t} : \A s \in Responses(u)' : FrontAnswer(u, s)'
    BY <1>2, <2>4, FrontAnswerKept
  <2>6. \A s \in Responses(t)' : FrontAnswer(t, s)'
    <3>1. CASE Silent(t)
      <4>1. Responses(t)' = Responses(t)
        BY <3>1 DEF Silent, Responses
      <4> QED
        BY <1>2, <4>1, FrontAnswerKept
    <3>2. ASSUME NEW e, Says(t, e), FrontAnswer(t, e)'
          PROVE  \A s \in Responses(t)' : FrontAnswer(t, s)'
      <4>1. Responses(t)' \subseteq Responses(t) \cup {e}
        BY <3>2 DEF Says
      <4>2. \A s \in Responses(t) : FrontAnswer(t, s)'
        BY <1>2, FrontAnswerKept
      <4> QED
        BY <3>2, <4>1, <4>2
    <3> QED
      BY <2>1, <3>1, <3>2
  <2>7. \A u \in Thread : \A s \in Responses(u)' : FrontAnswer(u, s)'
    BY <2>5, <2>6
  <2> QED
    BY <1>1, <2>3, <2>7 DEF FrontInv, Fronts, FrontAnswer
<1> QED
  BY <1>3, <1>4

-----------------------------------------------------------------------------
(* Lines: a write that is tried keeps those that nobody named, so writes in *)
(* any order do.                                                            *)

LEMMA AttemptKeeps ==
  ASSUME LinesInv, NEW w, Attempt(w), w.kind = "gpio"
  PROVE  Keeps(w.mod, w.lines)
<1>1. CASE w \in late
  BY <1>1 DEF LinesInv
<1>2. ASSUME NEW t \in Thread, w = ByteWrite(t)
      PROVE  FALSE
  BY <1>2 DEF ByteWrite
<1>3. ASSUME NEW t \in Thread, pc[t] = "gpio_write", w = GpioWrite(t)
      PROVE  Keeps(w.mod, w.lines)
  <2>1. Keeps(mod[t], lines[t])
    BY <1>3 DEF LinesInv
  <2>2. w.mod = mod[t] /\ w.lines = lines[t]
    BY <1>3 DEF GpioWrite
  <2> QED
    BY <2>1, <2>2
<1> QED
  BY <1>1, <1>2, <1>3 DEF Attempt

\* The lines that nobody named stay as they are.
LEMMA UnnamedStays ==
  ASSUME TypeInv, PlaceInv, LinesInv, [Next]_vars, NEW m \in Module, NEW l \in Line,
         ~Named(m, l)
  PROVE  l \in gpio[m] <=> l \in gpio'[m]
<1>1. CASE gpio' = gpio
  BY <1>1
<1>2. ASSUME NEW w, Attempt(w), w.kind = "gpio",
             gpio' = [gpio EXCEPT ![w.mod] = w.lines]
      PROVE  l \in gpio[m] <=> l \in gpio'[m]
  <2>1. Keeps(w.mod, w.lines) /\ w.mod \in Module
    BY <1>2, AttemptKeeps, AttemptIsOf DEF WriteOf
  <2>2. gpio \in [Module -> SUBSET Line]
    BY DEF TypeInv
  <2>3. CASE m = w.mod
    <3>1. gpio'[m] = w.lines
      BY <1>2, <2>1, <2>2, <2>3
    <3> QED
      BY <2>1, <2>3, <3>1 DEF Keeps
  <2>4. CASE m # w.mod
    BY <1>2, <2>1, <2>2, <2>4
  <2> QED
    BY <2>3, <2>4
<1>3. Quiet \/ \E w : Attempt(w) /\ Tried(w)
  BY CardSteps
<1> QED
  BY <1>1, <1>2, <1>3 DEF Quiet, Tried, Effect

LEMMA StillKeeps ==
  ASSUME TypeInv, PlaceInv, LinesInv, [Next]_vars, NEW m \in Module, NEW s, Keeps(m, s)
  PROVE  Keeps(m, s)'
<1>1. req' = req
  BY CardSteps
<1>2. \A l \in Line : ~Named(m, l) => (l \in s <=> l \in gpio[m])
  BY DEF Keeps
<1>3. \A l \in Line : ~Named(m, l) => (l \in gpio[m] <=> l \in gpio'[m])
  BY UnnamedStays
<1>4. \A l \in Line : Named(m, l)' <=> Named(m, l)
  BY <1>1 DEF Named
<1> QED
  BY <1>2, <1>3, <1>4 DEF Keeps

\* What is read and modified for a request keeps the lines it does not name.
LEMMA ModifiedKeeps ==
  ASSUME TypeInv, NEW t \in Thread, NEW m \in Module, req[t].op = "set_gpio",
         req[t].mod \in {-1, m}
  PROVE  Keeps(m, Modified(gpio[m], req[t].gpio))
<1>1. req[t].gpio \in [Line -> State]
  BY RequestFacts DEF TypeInv
<1>2. ASSUME NEW l \in Line, ~Named(m, l)
      PROVE  l \in Modified(gpio[m], req[t].gpio) <=> l \in gpio[m]
  <2>1. req[t].gpio[l] = "unknown"
    BY <1>2 DEF Named
  <2> QED
    BY <2>1 DEF Modified
<1> QED
  BY <1>2 DEF Keeps

LineKept(t) == pc[t] = "gpio_write" => Keeps(mod[t], lines[t])

LEMMA LinesKept ==
  ASSUME TypeInv, PlaceInv, LinesInv, [Next]_vars, NEW u \in Thread,
         pc'[u] = pc[u], mod'[u] = mod[u], lines'[u] = lines[u]
  PROVE  LineKept(u)'
<1> SUFFICES ASSUME pc[u] = "gpio_write"
             PROVE  Keeps(mod[u], lines[u])'
  BY DEF LineKept
<1>1. mod[u] \in Module /\ Keeps(mod[u], lines[u])
  BY DEF PlaceInv, Place, Step, LinesInv
<1>2. PICK m \in Module, s \in {lines[u]} : m = mod[u] /\ s = lines[u]
  BY <1>1
<1>3. Keeps(m, s)'
  BY <1>1, <1>2, StillKeeps
<1> QED
  BY <1>2, <1>3 DEF Keeps

LEMMA LinesOfThread ==
  ASSUME TypeInv, PlaceInv, ReadInv, LinesInv, [Next]_vars, NEW t \in Thread, Rpc(t)
  PROVE  LineKept(t)'
<1>1. Place(t) /\ Reading(t) /\ req' = req
  BY CardSteps DEF PlaceInv, ReadInv
<1>2. CASE ReadGpio(t)
  <2>1. /\ pc'[t] = "gpio_write" =>
             /\ mod'[t] = mod[t]
             /\ lines'[t] = Modified(gpio[mod[t]], req[t].gpio)
             /\ gpio' = gpio
        /\ Place(t)'
    BY <1>1, <1>2, TypedReadGpio
  <2>2. ASSUME pc'[t] = "gpio_write"
        PROVE  Keeps(mod[t], lines[t])'
    <3>1. mod'[t] \in Module /\ req[t].mod \in {-1, mod'[t]} /\ req[t].op = "set_gpio"
      BY <1>1, <2>1, <2>2 DEF Place, Step
    <3>2. PICK m \in Module, s \in {lines'[t]} : m = mod'[t] /\ s = lines'[t]
      BY <3>1
    <3>3. m = mod[t] /\ s = Modified(gpio[m], req[t].gpio) /\ req[t].mod \in {-1, m}
      BY <2>1, <2>2, <3>1, <3>2
    <3>4. Keeps(m, s)
      BY <3>1, <3>3, ModifiedKeeps
    <3>5. Keeps(m, s)'
      BY <3>4, StillKeeps
    <3> QED
      BY <3>2, <3>5 DEF Keeps
  <2> QED
    BY <2>2 DEF LineKept
<1>3. CASE ~ReadGpio(t)
  <2>1. pc'[t] # "gpio_write"
    <3>1. CASE Serve(t)
      BY <1>1, <3>1, TypedServe
    <3>2. CASE CheckPresent(t)
      BY <1>1, <3>2, TypedCheckPresent
    <3>3. CASE ReadPage(t)
      BY <1>1, <3>3, TypedReadPage
    <3>4. CASE ReadByte(t)
      BY <1>1, <3>4, TypedReadByte
    <3>5. CASE WriteByte(t)
      BY <3>5, TypedWriteByte
    <3>6. CASE ReadInfoPage(t)
      BY <1>1, <3>6, TypedReadInfoPage
    <3>7. CASE WriteGpio(t)
      BY <1>1, <3>7, TypedWriteGpio
    <3> QED
      BY <1>3, <3>1, <3>2, <3>3, <3>4, <3>5, <3>6, <3>7 DEF Rpc
  <2> QED
    BY <2>1 DEF LineKept
<1> QED
  BY <1>2, <1>3

LEMMA LinesNext ==
  ASSUME TypeInv, PlaceInv, ReadInv, LinesInv, [Next]_vars
  PROVE  LinesInv'
<1>1. ASSUME NEW w \in late', w.kind = "gpio"
      PROVE  Keeps(w.mod, w.lines)'
  <2>1. Attempt(w)
    <3>1. Quiet \/ \E v : Attempt(v) /\ Tried(v)
      BY CardSteps
    <3> QED
      BY <1>1, <3>1 DEF Quiet, Tried, Attempt
  <2>2. Keeps(w.mod, w.lines) /\ w.mod \in Module
    BY <1>1, <2>1, AttemptKeeps, AttemptIsOf DEF WriteOf
  <2> QED
    BY <2>2, StillKeeps
<1>2. ASSUME NEW u \in Thread
      PROVE  LineKept(u)'
  <2>1. CASE ~\E t \in Thread : Rpc(t)
    <3>1. UNCHANGED <<pc, mod, at, data, lines, out>>
      BY <2>1, OtherSteps
    <3> QED
      BY <3>1, LinesKept
  <2>2. ASSUME NEW t \in Thread, Rpc(t), u # t
        PROVE  LineKept(u)'
    <3>1. Own(t)
      BY <2>2, OwnOfThread
    <3>2. pc'[u] = pc[u] /\ mod'[u] = mod[u] /\ lines'[u] = lines[u]
      BY <2>2, <3>1, OthersKept
    <3> QED
      BY <3>2, LinesKept
  <2>3. CASE Rpc(u)
    BY <2>3, LinesOfThread
  <2> QED
    BY <2>1, <2>2, <2>3
<1> QED
  BY <1>1, <1>2 DEF LinesInv, LineKept

-----------------------------------------------------------------------------
(* The theorems.                                                            *)

IInv == TypeInv /\ PlaceInv /\ ReadInv /\ AnswersInv /\ FrontInv /\ LinesInv

LEMMA InitIInv == Init => IInv
<1> SUFFICES ASSUME Init PROVE IInv
  OBVIOUS
<1>1. TypeInv /\ PlaceInv
  BY TypeInit
<1>2. /\ \A t \in Thread : pc[t] = "idle" /\ out[t] = <<>> /\ data[t] = [n \in {} |-> 0]
      /\ late = {}
      /\ \A m \in Module, a \in Memory : memory[m][a] = NoThread
  BY DEF Init
<1>3. \A t \in Thread : Responses(t) = {}
  <2>1. Len(<<>>) = 0 /\ 1 .. 0 = {}
    BY EmptySeq
  <2> QED
    BY <1>2, <2>1 DEF Responses
<1>4. ReadInv
  <2>1. DOMAIN [n \in {} |-> 0] = {}
    OBVIOUS
  <2> QED
    BY <1>2, <2>1 DEF ReadInv, Reading
<1>5. AnswersInv
  BY <1>3 DEF AnswersInv
<1>6. FrontInv
  BY <1>2, <1>3, ModuleRpcAssumption DEF FrontInv
<1>7. LinesInv
  BY <1>2 DEF LinesInv
<1> QED
  BY <1>1, <1>4, <1>5, <1>6, <1>7 DEF IInv

\* What the threads and the late writes are about is what their requests say,
\* whatever steps they take.
THEOREM ModulesInvariant == Spec => []IInv
<1>1. IInv /\ [Next]_vars => IInv'
  BY TypeNext, ReadNext, FrontNext, LinesNext DEF IInv
<1> QED
  BY InitIInv, <1>1, PTL DEF Spec

\* The variables of the handlers keep the types and the widths that they have.
THEOREM TypeCorrect == Spec => []TypeOK
<1>1. IInv => TypeOK
  <2> SUFFICES ASSUME IInv PROVE TypeOK
    OBVIOUS
  <2>1. TypeInv /\ ReadInv
    BY DEF IInv
  <2>2. \A w \in late : w.mod \in Module /\ w.kind \in {"byte", "gpio"}
    BY <2>1 DEF TypeInv, WriteOf
  <2>3. pc \in [Thread -> {"idle", "present", "page", "byte", "write", "info",
                           "gpio", "gpio_write", "done"}]
    BY <2>1 DEF TypeInv, Step
  <2>4. \A t \in Thread : DOMAIN data[t] \subseteq 0 .. Width - 1
    BY <2>1 DEF ReadInv, Reading
  <2> QED
    BY <2>1, <2>2, <2>3, <2>4 DEF TypeOK, TypeInv
<1> QED
  BY ModulesInvariant, <1>1, PTL

\* A read that succeeds returns the bytes asked for, of the module asked for, for
\* any offset and count that keep within the memory and any size of a page.
THEOREM ReadsAnswerWhatIsAsked == Spec => []AnswersTheBytesAsked
<1>1. IInv => AnswersTheBytesAsked
  <2> SUFFICES ASSUME IInv, NEW t \in Thread, req[t].op = "get_mem",
                      req[t].offset + Count(req[t]) <= Width, NEW r \in Answered(t)
               PROVE  /\ DOMAIN r.data = 0 .. Count(req[t]) - 1
                      /\ \A n \in DOMAIN r.data :
                           /\ r.data[n][1] = r.mod_id
                           /\ r.data[n][2] = Address(req[t].offset + n, req[t].page)
    BY DEF AnswersTheBytesAsked
  <2>1. r \in Responses(t) /\ r.error_code = "EC_OK"
    BY DEF Answered
  <2>2. ReadAnswer(t, r)
    BY <2>1 DEF IInv, AnswersInv
  <2> QED
    BY <2>1, <2>2 DEF ReadAnswer, AsAsked, Inside
<1> QED
  BY ModulesInvariant, <1>1, PTL

\* Writes touch what they are given, from the front, and all of it when they say
\* so, though writes of other threads overlap and failed ones come late.
THEOREM WritesGoFromTheFront == Spec => []WritesFromTheFront
<1>1. IInv => WritesFromTheFront
  <2> SUFFICES ASSUME IInv PROVE WritesFromTheFront
    OBVIOUS
  <2>1. FrontInv /\ TypeInv
    BY DEF IInv
  <2>2. ASSUME NEW t \in Thread, NEW m \in Module, NEW a \in Memory, memory[m][a] = t
        PROVE  /\ req[t].op = "set_mem" /\ req[t].mod \in {-1, m}
               /\ \E n \in 0 .. req[t].count - 1 :
                    /\ a = Address(req[t].offset + n, req[t].page)
                    /\ \A k \in 0 .. n :
                         memory[m][Address(req[t].offset + k, req[t].page)] # NoThread
    <3>1. req[t].op = "set_mem" /\ req[t].mod \in {-1, m} /\ MayWrite(t, m, a)
      BY <2>1, <2>2 DEF FrontInv
    <3>2. PICK n \in 0 .. req[t].count - 1 : a = Asked(t, n) /\ WrittenTo(t, m, n)
      BY <3>1 DEF MayWrite
    <3>3. n \in Int
      BY <3>2
    <3>4. \A k \in 0 .. n : k \in 0 .. n - 1 \/ k = n
      BY <3>3
    <3>5. t # NoThread
      BY ModuleRpcAssumption
    <3>6. \A k \in 0 .. n : memory[m][Asked(t, k)] # NoThread
      BY <2>2, <3>2, <3>4, <3>5 DEF WrittenTo, Changed
    <3> QED
      BY <3>1, <3>2, <3>6 DEF Asked
  <2>3. ASSUME NEW t \in Thread, NEW m \in Module, req[t].op = "set_mem",
               NEW s \in Answered(t), s.mod_id = m, NEW n \in 0 .. req[t].count - 1
        PROVE  memory[m][Address(req[t].offset + n, req[t].page)] # NoThread
    <3>1. s \in Responses(t) /\ s.error_code = "EC_OK"
      BY DEF Answered
    <3>2. WrittenTo(t, m, req[t].count)
      BY <2>1, <2>3, <3>1 DEF FrontInv
    <3> QED
      BY <3>2 DEF WrittenTo, Changed, Asked
  <2> QED
    BY <2>2, <2>3 DEF WritesFromTheFront
<1> QED
  BY ModulesInvariant, <1>1, PTL

\* No line of a module changes that no request for the module names.
THEOREM LinesAreNotInvented == Spec => NoLineIsInvented
<1>1. ASSUME IInv, [Next]_vars
      PROVE  [\A m \in Module, l \in Line :
                (l \in gpio[m]) # (l \in gpio'[m]) =>
                  \E t \in Thread : /\ req[t].op = "set_gpio"
                                   /\ req[t].mod \in {-1, m}
                                   /\ req[t].gpio[l] # "unknown"]_vars
  <2> SUFFICES ASSUME NEW m \in Module, NEW l \in Line,
                      (l \in gpio[m]) # (l \in gpio'[m])
               PROVE  \E t \in Thread : /\ req[t].op = "set_gpio"
                                       /\ req[t].mod \in {-1, m}
                                       /\ req[t].gpio[l] # "unknown"
    OBVIOUS
  <2>1. ~Named(m, l) => (l \in gpio[m] <=> l \in gpio'[m])
    BY <1>1, UnnamedStays DEF IInv
  <2>2. Named(m, l)
    BY <2>1
  <2> QED
    BY <2>2 DEF Named
<1> QED
  BY ModulesInvariant, <1>1, PTL DEF Spec, NoLineIsInvented
=============================================================================
