-------------------------- MODULE CardConfigProofs --------------------------
(***************************************************************************)
(* For any number of ports, destinations, writers, readers and requests,   *)
(* when Set requests take turns: what GetSwitchConfig reports was in force *)
(* or on the way; a switch that nobody writes takes each port from one     *)
(* interface; a Set request leaves every register as the last item that is *)
(* granted for it says; and defaults change the switch while the ports are *)
(* down.                                                                   *)
(*                                                                         *)
(* The last two rest on EffectInv: a register holds what the last granted  *)
(* item that is done wrote there.  It needs to know what the items of a    *)
(* request are, which the recursion over the ports in EachPort decides; so *)
(* the second part starts with an induction over sets of numbers.          *)
(***************************************************************************)
EXTENDS CardConfig, SequenceTheorems, WellFoundedInduction, TLAPS

LEMMA Kinds == Idle \notin Request
  BY CardConfigAssumption DEF Idle

LEMMA TypeInit == Init => TypeOK
<1> SUFFICES ASSUME Init PROVE TypeOK
  OBVIOUS
<1>1. request \in [Writer -> Request \cup {Idle}] /\ DOMAIN todo = Writer
  BY DEF Init
<1>2. copy \in [Writer -> [Port -> Interface]]
  BY DEF Init, NoCopy, Interface
<1>3. report \in [Reader -> Selector \cup {Nowhere}]
  BY DEF Init
<1>4. possible \in [Reader -> SUBSET Selector]
  BY DEF Init
<1>5. asking \in [Reader -> Port \cup {-1}]
  BY DEF Init
<1>6. stage \in [Reader -> 1 .. 2]
  BY DEF Init
<1>7. QED
  BY <1>1, <1>2, <1>3, <1>4, <1>5, <1>6 DEF Init, TypeOK

\* A selector in force is a selector.
LEMMA InForceType ==
  ASSUME NEW m \in [Interface -> [Port -> Destination]], NEW p \in Port
  PROVE  InForce(m, p) \in Selector
<1>1. m["TEST"][p] \in Destination /\ m["PHYSICAL"][p] \in Destination
  BY DEF Interface
<1>2. QED
  BY <1>1 DEF InForce, Selector, Interface

\* Writing a multiplexer keeps the types, and what readers may report.
LEMMA WriteMuxTyped ==
  ASSUME TypeOK, NEW i \in Interface, NEW p \in Port, NEW dest \in Destination,
         NEW towards \in SUBSET Selector,
         WriteMux(i, p, dest, towards)
  PROVE  /\ mux' \in [Interface -> [Port -> Destination]]
         /\ possible' \in [Reader -> SUBSET Selector]
<1>1. mux' \in [Interface -> [Port -> Destination]]
  BY DEF TypeOK, WriteMux
<1>2. ASSUME NEW r \in Reader PROVE possible'[r] \in SUBSET Selector
  <2>1. CASE asking[r] = p
    <3>1. InForce(mux', p) \in Selector
      BY <1>1, <2>1, InForceType
    <3>2. possible'[r] = possible[r] \cup {InForce(mux', p)} \cup towards
      BY <2>1 DEF WriteMux
    <3>3. QED
      BY <2>1, <3>1, <3>2 DEF TypeOK
  <2>2. CASE asking[r] # p
    BY <2>2 DEF TypeOK, WriteMux
  <2>3. QED
    BY <2>1, <2>2
<1>3. QED
  BY <1>1, <1>2 DEF WriteMux

\* The request at work has an item, and an item that a selector is set from is
\* one the setter accepts.
LEMMA IngressItem ==
  ASSUME NEW w \in Writer, NextIs(w, "ingress")
  PROVE  Item(w).index \in Port /\ Item(w).intf \in Interface
           /\ Item(w).to \in Destination
  BY DEF NextIs, Acceptable

LEMMA DropItem ==
  ASSUME NEW w \in Writer, NextIs(w, "drop")
  PROVE  Item(w).index \in Port /\ Item(w).intf \in Interface
  BY DEF NextIs, Acceptable

LEMMA TypeNext == TypeOK /\ [Next]_vars => TypeOK'
<1> SUFFICES ASSUME TypeOK, [Next]_vars PROVE TypeOK'
  OBVIOUS
<1>1. ASSUME NEW w \in Writer, Begin(w) PROVE TypeOK'
  BY <1>1 DEF Begin, TypeOK, registers, readerVars
<1>2. ASSUME NEW w \in Writer, Refuse(w) PROVE TypeOK'
  BY <1>2 DEF Refuse, TypeOK, registers, readerVars
<1>3. ASSUME NEW w \in Writer, SetIngress(w) PROVE TypeOK'
  <2> DEFINE i    == Item(w)
             each == IF half[w] THEN "TEST" ELSE "PHYSICAL"
             dest == IF each = i.intf THEN i.to ELSE "DROP"
             toward == [intf |-> i.intf, dest |-> i.to]
  <2>1. i.index \in Port /\ i.intf \in Interface /\ i.to \in Destination
    BY <1>3, IngressItem DEF SetIngress
  <2>2. each \in Interface /\ dest \in Destination /\ {toward} \in SUBSET Selector
    BY <2>1 DEF Interface, Destination, Selector
  <2>3. WriteMux(each, i.index, dest, {toward})
    BY <1>3 DEF SetIngress
  <2>4. /\ mux' \in [Interface -> [Port -> Destination]]
        /\ possible' \in [Reader -> SUBSET Selector]
    <3> HIDE DEF i, each, dest, toward
    <3>1. QED
      BY <2>1, <2>2, <2>3, WriteMuxTyped
  <2>5. half' \in [Writer -> BOOLEAN] /\ DOMAIN todo' = Writer
    BY <1>3 DEF SetIngress, Done, First, TypeOK
  <2>6. QED
    BY <1>3, <2>4, <2>5 DEF SetIngress, TypeOK, readerVars
<1>4. ASSUME NEW w \in Writer, DropMux(w) PROVE TypeOK'
  <2>1. Item(w).index \in Port /\ Item(w).intf \in Interface
    BY <1>4, DropItem DEF DropMux
  <2>2. WriteMux(Item(w).intf, Item(w).index, "DROP", {})
    BY <1>4 DEF DropMux
  <2>3. /\ mux' \in [Interface -> [Port -> Destination]]
        /\ possible' \in [Reader -> SUBSET Selector]
    <3>1. "DROP" \in Destination /\ {} \in SUBSET Selector
      BY DEF Destination
    <3>2. QED
      BY <2>1, <2>2, <3>1, WriteMuxTyped
  <2>4. QED
    BY <1>4, <2>3 DEF DropMux, Done, TypeOK, readerVars
<1>5. ASSUME NEW w \in Writer, LoadEgress(w) PROVE TypeOK'
  BY <1>5 DEF LoadEgress, First, TypeOK, registers, readerVars
<1>6. ASSUME NEW w \in Writer, StoreEgress(w) PROVE TypeOK'
  <2>1. Item(w).index \in Port /\ Item(w).to \in Interface
    BY <1>6 DEF StoreEgress, NextIs, Acceptable
  <2>2. egress' \in [Port -> Interface]
    BY <1>6, <2>1 DEF StoreEgress, TypeOK
  <2>3. copy' \in [Writer -> [Port -> Interface]]
    BY <1>6 DEF StoreEgress, TypeOK, NoCopy, Interface
  <2>4. QED
    BY <1>6, <2>2, <2>3 DEF StoreEgress, Done, TypeOK, readerVars
<1>7. ASSUME NEW w \in Writer, SetBypass(w) PROVE TypeOK'
  BY <1>7 DEF SetBypass, NextIs, Acceptable, Done, TypeOK, readerVars
<1>8. ASSUME NEW w \in Writer, SetFeature(w) PROVE TypeOK'
  BY <1>8 DEF SetFeature, Done, TypeOK, readerVars
<1>9. ASSUME NEW w \in Writer, Respond(w) PROVE TypeOK'
  BY <1>9 DEF Respond, TypeOK, registers, readerVars
<1>10. ASSUME NEW r \in Reader, Ask(r) PROVE TypeOK'
  <2>1. PICK p \in Port :
          /\ asking'   = [asking EXCEPT ![r] = p]
          /\ possible' = [possible EXCEPT ![r] = {InForce(mux, p)}]
    BY <1>10 DEF Ask
  <2>2. InForce(mux, p) \in Selector
    BY InForceType DEF TypeOK
  <2>3. QED
    BY <1>10, <2>1, <2>2 DEF Ask, TypeOK, registers, writerVars
<1>11. ASSUME NEW r \in Reader, ReadMux(r) PROVE TypeOK'
  <2> DEFINE intf == Stage(stage[r])
             dest == mux[intf][asking[r]]
  <2>1. asking[r] \in Port /\ intf \in Interface
    BY <1>11 DEF ReadMux, TypeOK, Stage, Interface
  <2>2. [intf |-> intf, dest |-> dest] \in Selector
    BY <2>1 DEF Selector, TypeOK
  <2>3. report' \in [Reader -> Selector \cup {Nowhere}] /\ stage' \in [Reader -> 1 .. 2]
    <3>1. CASE stage[r] = 1 /\ dest = "DROP"
      BY <1>11, <3>1 DEF ReadMux, TypeOK
    <3>2. CASE ~(stage[r] = 1 /\ dest = "DROP")
      <4>1. report' = [report EXCEPT ![r] = [intf |-> intf, dest |-> dest]]
            /\ stage' = stage
        BY <1>11, <3>2 DEF ReadMux
      <4> HIDE DEF intf, dest
      <4>2. QED
        BY <4>1, <2>2 DEF TypeOK
    <3>3. QED
      BY <3>1, <3>2
  <2>4. QED
    BY <1>11, <2>3 DEF ReadMux, TypeOK, registers, writerVars
<1>12. ASSUME NEW r \in Reader, Reported(r) PROVE TypeOK'
  BY <1>12 DEF Reported, TypeOK, registers, writerVars
<1>13. CASE UNCHANGED vars
  BY <1>13 DEF vars, registers, writerVars, readerVars, TypeOK
<1>14. QED
  BY <1>1, <1>2, <1>3, <1>4, <1>5, <1>6, <1>7, <1>8, <1>9, <1>10, <1>11, <1>12, <1>13
     DEF Next, Serve

\* The registers and what the threads keep have their types, serialised or not.
THEOREM TypeCorrect == Spec => []TypeOK
<1>1. QED
  BY TypeInit, TypeNext, PTL DEF Spec

-----------------------------------------------------------------------------
(* One writer at work *)

LEMMA TurnsNext ==
  ASSUME Serialized, TypeOK, TurnsTaken, [Next]_vars
  PROVE  TurnsTaken'
<1> USE Kinds DEF Busy, Item, NextIs
<1>1. ASSUME NEW w \in Writer, Begin(w) PROVE TurnsTaken'
  BY <1>1 DEF Begin, TypeOK, TurnsTaken
<1>2. ASSUME NEW w \in Writer, Refuse(w) PROVE TurnsTaken'
  <2>1. ~half[w]
    BY <1>2 DEF Refuse, TurnsTaken
  <2>2. QED
    BY <1>2, <2>1 DEF Refuse, TypeOK, TurnsTaken
<1>3. ASSUME NEW w \in Writer, SetIngress(w) PROVE TurnsTaken'
  BY <1>3 DEF SetIngress, Done, First, TypeOK, TurnsTaken
<1>4. ASSUME NEW w \in Writer, DropMux(w) PROVE TurnsTaken'
  BY <1>4 DEF DropMux, Done, TypeOK, TurnsTaken
<1>5. ASSUME NEW w \in Writer, LoadEgress(w) PROVE TurnsTaken'
  BY <1>5 DEF LoadEgress, First, TypeOK, TurnsTaken
<1>6. ASSUME NEW w \in Writer, StoreEgress(w) PROVE TurnsTaken'
  BY <1>6 DEF StoreEgress, Done, TypeOK, TurnsTaken
<1>7. ASSUME NEW w \in Writer, SetBypass(w) PROVE TurnsTaken'
  BY <1>7 DEF SetBypass, Done, TypeOK, TurnsTaken
<1>8. ASSUME NEW w \in Writer, SetFeature(w) PROVE TurnsTaken'
  BY <1>8 DEF SetFeature, Done, TypeOK, TurnsTaken
<1>9. ASSUME NEW w \in Writer, Respond(w) PROVE TurnsTaken'
  BY <1>9 DEF Respond, TypeOK, TurnsTaken
<1>10. ASSUME NEW r \in Reader, Ask(r) \/ ReadMux(r) \/ Reported(r) PROVE TurnsTaken'
  BY <1>10 DEF Ask, ReadMux, Reported, writerVars, TurnsTaken
<1>11. CASE UNCHANGED vars
  BY <1>11 DEF vars, writerVars, TurnsTaken
<1>12. QED
  BY <1>1, <1>2, <1>3, <1>4, <1>5, <1>6, <1>7, <1>8, <1>9, <1>10, <1>11
     DEF Next, Serve

-----------------------------------------------------------------------------
(* The two multiplexers of a port *)

\* A step that writes no multiplexer and stays outside the items of two halves
\* that set one leaves the selectors alone.
LEMMA SelectorsKept ==
  ASSUME Selectors, UNCHANGED mux,
         \A w \in Writer, p \in Port, i \in Interface : Between(w, p, i)' <=> Between(w, p, i)
  PROVE  Selectors'
  BY DEF Selectors, Interface

LEMMA SelectorsNext ==
  ASSUME TypeOK, TurnsTaken, Selectors, [Next]_vars
  PROVE  Selectors'
<1> USE DEF Busy, Item, NextIs
<1>1. ASSUME NEW w \in Writer, Begin(w) PROVE Selectors'
  <2>1. ~half[w]
    BY <1>1 DEF Begin, TurnsTaken
  <2>2. QED
    BY <1>1, <2>1, SelectorsKept DEF Begin, Between, TypeOK, registers
<1>2. ASSUME NEW w \in Writer, Refuse(w) PROVE Selectors'
  <2>1. ~half[w]
    BY <1>2 DEF Refuse, TurnsTaken
  <2>2. QED
    BY <1>2, <2>1, SelectorsKept DEF Refuse, Between, TypeOK, registers
<1>3. ASSUME NEW w \in Writer, SetIngress(w) PROVE Selectors'
  <2> DEFINE i == Item(w)
  <2>1. /\ i.op = "ingress"
        /\ i.index \in Port /\ i.intf \in Interface /\ i.to \in Destination
    BY <1>3, IngressItem DEF SetIngress
  <2>2. ASSUME NEW o \in Writer, half[o] PROVE o = w
    BY <1>3, <2>2 DEF SetIngress, TurnsTaken
  <2>3. CASE ~half[w]
    <3>1. /\ mux' = [mux EXCEPT !["PHYSICAL"][i.index] =
                        IF i.intf = "PHYSICAL" THEN i.to ELSE "DROP"]
          /\ half' = [half EXCEPT ![w] = TRUE] /\ UNCHANGED todo
      BY <1>3, <2>3 DEF SetIngress, WriteMux, First
    <3>2. \A o \in Writer : ~half[o]
      BY <2>2, <2>3
    <3>3. \A p \in Port : p = i.index /\ i.intf = "PHYSICAL" =>
                            Between(w, p, "PHYSICAL")'
      BY <2>1, <3>1 DEF Between, TypeOK
    <3>4. \A o \in Writer, p \in Port, j \in Interface :
             Between(o, p, j)' => o = w /\ p = i.index /\ j = i.intf
      BY <3>1, <3>2 DEF Between, TypeOK
    <3>5. ASSUME NEW p \in Port
          PROVE  \/ \E j \in Interface : mux'[j][p] = "DROP"
                 \/ \E o \in Writer : Between(o, p, "PHYSICAL")'
      <4>1. \E j \in Interface : mux[j][p] = "DROP"
        BY <3>2 DEF Selectors, Between
      <4>2. CASE p # i.index
        BY <4>1, <4>2, <3>1 DEF TypeOK, Interface
      <4>3. CASE p = i.index /\ i.intf = "PHYSICAL"
        BY <4>3, <3>3
      <4>4. CASE p = i.index /\ i.intf # "PHYSICAL"
        BY <4>4, <3>1 DEF TypeOK, Interface
      <4>5. QED
        BY <4>2, <4>3, <4>4
    <3>6. ASSUME NEW p \in Port, NEW o \in Writer, Between(o, p, "TEST")'
          PROVE  mux'["PHYSICAL"][p] = "DROP"
      <4>1. p = i.index /\ i.intf = "TEST"
        BY <3>4, <3>6 DEF Interface
      <4>2. QED
        BY <3>1, <4>1 DEF TypeOK, Interface
    <3>7. QED
      BY <3>5, <3>6 DEF Selectors
  <2>4. CASE half[w]
    <3>1. /\ mux' = [mux EXCEPT !["TEST"][i.index] =
                        IF i.intf = "TEST" THEN i.to ELSE "DROP"]
          /\ half' = [half EXCEPT ![w] = FALSE]
      BY <1>3, <2>4 DEF SetIngress, WriteMux, Done
    <3>2. \A o \in Writer : ~half'[o]
      BY <2>2, <3>1 DEF TypeOK
    <3>3. ASSUME NEW p \in Port PROVE \E j \in Interface : mux'[j][p] = "DROP"
      <4>1. CASE p # i.index
        <5>1. \A o \in Writer : ~Between(o, p, "PHYSICAL")
          BY <2>2, <4>1 DEF Between
        <5>2. QED
          BY <4>1, <5>1, <3>1 DEF Selectors, TypeOK, Interface
      <4>2. CASE p = i.index /\ i.intf = "PHYSICAL"
        BY <4>2, <3>1 DEF TypeOK, Interface
      <4>3. CASE p = i.index /\ i.intf = "TEST"
        <5>1. Between(w, p, "TEST")
          BY <2>1, <2>4, <4>3 DEF Between
        <5>2. mux["PHYSICAL"][p] = "DROP"
          BY <5>1 DEF Selectors
        <5>3. QED
          BY <5>2, <3>1 DEF TypeOK, Interface
      <4>4. QED
        BY <2>1, <4>1, <4>2, <4>3 DEF Interface
    <3>4. QED
      BY <3>2, <3>3 DEF Selectors, Between
  <2>5. QED
    BY <2>3, <2>4
<1>4. ASSUME NEW w \in Writer, DropMux(w) PROVE Selectors'
  <2>1. /\ mux' = [mux EXCEPT ![Item(w).intf][Item(w).index] = "DROP"]
        /\ half' = [half EXCEPT ![w] = FALSE]
    BY <1>4 DEF DropMux, WriteMux, Done
  <2>2. Item(w).index \in Port /\ Item(w).intf \in Interface
    BY <1>4, DropItem DEF DropMux
  <2>3. \A o \in Writer : ~half[o]
    BY <1>4 DEF DropMux, TurnsTaken
  <2>4. \A p \in Port : \E j \in Interface : mux[j][p] = "DROP"
    BY <2>3 DEF Selectors, Between
  <2>5. \A o \in Writer : ~half'[o]
    BY <2>1, <2>3 DEF TypeOK
  <2>6. \A p \in Port : \E j \in Interface : mux'[j][p] = "DROP"
    BY <2>1, <2>2, <2>4 DEF TypeOK, Interface
  <2>7. QED
    BY <2>5, <2>6 DEF Selectors, Between
<1>5. ASSUME NEW w \in Writer, LoadEgress(w) PROVE Selectors'
  BY <1>5, SelectorsKept DEF LoadEgress, First, Between, TypeOK, registers
<1>6. ASSUME NEW w \in Writer, StoreEgress(w) PROVE Selectors'
  BY <1>6, SelectorsKept DEF StoreEgress, Done, Between, TypeOK
<1>7. ASSUME NEW w \in Writer, SetBypass(w) PROVE Selectors'
  <2>1. ~half[w]
    BY <1>7 DEF SetBypass, TurnsTaken
  <2>2. QED
    BY <1>7, <2>1, SelectorsKept DEF SetBypass, Done, Between, TypeOK
<1>8. ASSUME NEW w \in Writer, SetFeature(w) PROVE Selectors'
  <2>1. ~half[w]
    BY <1>8 DEF SetFeature, TurnsTaken
  <2>2. QED
    BY <1>8, <2>1, SelectorsKept DEF SetFeature, Done, Between, TypeOK
<1>9. ASSUME NEW w \in Writer, Respond(w) PROVE Selectors'
  BY <1>9, SelectorsKept DEF Respond, Between, registers
<1>10. ASSUME NEW r \in Reader, Ask(r) \/ ReadMux(r) \/ Reported(r) PROVE Selectors'
  BY <1>10, SelectorsKept DEF Ask, ReadMux, Reported, registers, writerVars, Between
<1>11. CASE UNCHANGED vars
  BY <1>11, SelectorsKept DEF vars, registers, writerVars, Between
<1>12. QED
  BY <1>1, <1>2, <1>3, <1>4, <1>5, <1>6, <1>7, <1>8, <1>9, <1>10, <1>11
     DEF Next, Serve

-----------------------------------------------------------------------------
(* A reader in the middle of a port *)

\* The registers a reader looks at stay, and so does all it knows.
LEMMA ReportsKept ==
  ASSUME ReportsPossible, UNCHANGED <<mux, readerVars, possible>>
  PROVE  ReportsPossible'
  BY DEF ReportsPossible, ReportPossible, InForce, readerVars

\* A write of one multiplexer keeps a reader's reports possible, if a write to
\* the physical one is on the way to a physical selector or drops, and a write
\* that opens the test one finds the physical one closed.
LEMMA ReportsWrite ==
  ASSUME TypeOK, ReportsPossible,
         NEW i \in Interface, NEW p \in Port, NEW dest \in Destination, NEW towards,
         WriteMux(i, p, dest, towards), UNCHANGED readerVars,
         i = "PHYSICAL" => \/ dest = "DROP"
                           \/ [intf |-> "PHYSICAL", dest |-> dest] \in towards,
         i = "TEST" => dest = "DROP" \/ mux["PHYSICAL"][p] = "DROP"
  PROVE  ReportsPossible'
<1> SUFFICES ASSUME NEW r \in Reader PROVE ReportPossible(r)'
  BY DEF ReportsPossible
<1>1. ReportPossible(r)
  BY DEF ReportsPossible
<1>2. mux' = [mux EXCEPT ![i][p] = dest] /\ UNCHANGED <<asking, stage, report>>
  BY DEF WriteMux, readerVars
<1>3. CASE asking[r] # p
  <2>1. possible'[r] = possible[r]
    BY <1>3 DEF WriteMux
  <2>2. asking[r] # -1 => \A j \in Interface : mux'[j][asking[r]] = mux[j][asking[r]]
    BY <1>2, <1>3 DEF TypeOK, Interface
  <2>3. QED
    BY <1>1, <1>2, <2>1, <2>2 DEF ReportPossible, InForce, Interface
<1>4. CASE asking[r] = p
  <2>1. possible'[r] = possible[r] \cup {InForce(mux', p)} \cup towards
    BY <1>4 DEF WriteMux
  <2>2. report'[r] # Nowhere => report'[r] \in possible'[r]
    BY <1>1, <1>2, <2>1 DEF ReportPossible
  <2>3. p # -1
    BY CardConfigAssumption DEF Port
  <2>4. ASSUME stage[r] = 2
        PROVE  /\ [intf |-> "PHYSICAL", dest |-> mux'["PHYSICAL"][p]] \in possible'[r]
               /\ mux'["TEST"][p] # "DROP" =>
                    [intf |-> "PHYSICAL", dest |-> "DROP"] \in possible'[r]
    <3>1. /\ [intf |-> "PHYSICAL", dest |-> mux["PHYSICAL"][p]] \in possible[r]
          /\ mux["TEST"][p] # "DROP" =>
               [intf |-> "PHYSICAL", dest |-> "DROP"] \in possible[r]
      BY <1>1, <1>4, <2>3, <2>4 DEF ReportPossible
    <3>2. CASE i = "PHYSICAL"
      <4>1. mux'["PHYSICAL"][p] = dest /\ mux'["TEST"][p] = mux["TEST"][p]
        BY <1>2, <3>2 DEF TypeOK, Interface
      <4>2. CASE mux["TEST"][p] = "DROP"
        <5>1. InForce(mux', p) = [intf |-> "PHYSICAL", dest |-> dest]
          BY <4>1, <4>2 DEF InForce
        <5>2. QED
          BY <2>1, <4>1, <4>2, <5>1
      <4>3. CASE mux["TEST"][p] # "DROP"
        BY <2>1, <3>1, <3>2, <4>1, <4>3
      <4>4. QED
        BY <4>2, <4>3
    <3>3. CASE i = "TEST"
      <4>1. mux'["PHYSICAL"][p] = mux["PHYSICAL"][p] /\ mux'["TEST"][p] = dest
        BY <1>2, <3>3 DEF TypeOK, Interface
      <4>2. QED
        BY <2>1, <3>1, <3>3, <4>1
    <3>4. QED
      BY <3>2, <3>3 DEF Interface
  <2>5. QED
    BY <1>2, <1>4, <2>1, <2>2, <2>4 DEF ReportPossible
<1>5. QED
  BY <1>3, <1>4

LEMMA ReportsNext ==
  ASSUME TypeOK, TurnsTaken, Selectors, ReportsPossible, [Next]_vars
  PROVE  ReportsPossible'
<1>1. ASSUME NEW w \in Writer,
             \/ Begin(w) \/ Refuse(w) \/ LoadEgress(w) \/ StoreEgress(w)
             \/ SetBypass(w) \/ SetFeature(w) \/ Respond(w)
      PROVE  ReportsPossible'
  BY <1>1, ReportsKept
     DEF Begin, Refuse, LoadEgress, StoreEgress, SetBypass, SetFeature, Respond,
         registers
<1>2. ASSUME NEW w \in Writer, SetIngress(w) PROVE ReportsPossible'
  <2> DEFINE i    == Item(w)
             each == IF half[w] THEN "TEST" ELSE "PHYSICAL"
             dest == IF each = i.intf THEN i.to ELSE "DROP"
             towards == {[intf |-> i.intf, dest |-> i.to]}
  <2>1. /\ i.op = "ingress"
        /\ i.index \in Port /\ i.intf \in Interface /\ i.to \in Destination
    BY <1>2, IngressItem DEF SetIngress, NextIs
  <2>2. each \in Interface /\ dest \in Destination
    BY <2>1 DEF Interface, Destination
  <2>3. WriteMux(each, i.index, dest, towards) /\ UNCHANGED readerVars
    BY <1>2 DEF SetIngress
  <2>4. each = "PHYSICAL" =>
          dest = "DROP" \/ [intf |-> "PHYSICAL", dest |-> dest] \in towards
    OBVIOUS
  <2>5. ASSUME each = "TEST" PROVE dest = "DROP" \/ mux["PHYSICAL"][i.index] = "DROP"
    <3>1. half[w]
      BY <2>5
    <3>2. i.intf = "TEST" => Between(w, i.index, "TEST")
      BY <2>1, <3>1 DEF Between
    <3>3. QED
      BY <2>1, <2>5, <3>2 DEF Selectors
  <2> HIDE DEF i, each, dest, towards
  <2>6. QED
    BY <2>1, <2>2, <2>3, <2>4, <2>5, ReportsWrite
<1>3. ASSUME NEW w \in Writer, DropMux(w) PROVE ReportsPossible'
  <2>1. Item(w).index \in Port /\ Item(w).intf \in Interface /\ "DROP" \in Destination
    BY <1>3, DropItem DEF DropMux, Destination
  <2>2. WriteMux(Item(w).intf, Item(w).index, "DROP", {}) /\ UNCHANGED readerVars
    BY <1>3 DEF DropMux
  <2>3. QED
    BY <2>1, <2>2, ReportsWrite
<1>4. ASSUME NEW r \in Reader, Ask(r) PROVE ReportsPossible'
  <2>1. PICK p \in Port :
          /\ asking'   = [asking EXCEPT ![r] = p]
          /\ possible' = [possible EXCEPT ![r] = {InForce(mux, p)}]
    BY <1>4 DEF Ask
  <2>2. /\ stage' = [stage EXCEPT ![r] = 1] /\ report' = [report EXCEPT ![r] = Nowhere]
        /\ UNCHANGED mux
    BY <1>4 DEF Ask, registers
  <2>3. ReportPossible(r)'
    BY <2>1, <2>2 DEF ReportPossible, TypeOK, InForce
  <2>4. ASSUME NEW q \in Reader, q # r PROVE ReportPossible(q)'
    BY <2>1, <2>2, <2>4 DEF ReportsPossible, ReportPossible, TypeOK, InForce
  <2>5. QED
    BY <2>3, <2>4 DEF ReportsPossible
<1>5. ASSUME NEW r \in Reader, ReadMux(r) PROVE ReportsPossible'
  <2> DEFINE p    == asking[r]
             intf == Stage(stage[r])
             seen == [intf |-> intf, dest |-> mux[intf][p]]
  <2>1. p # -1 /\ stage[r] \in 1 .. 2 /\ ReportPossible(r)
    BY <1>5 DEF ReadMux, TypeOK, ReportsPossible
  <2>2. UNCHANGED <<mux, asking, possible>>
    BY <1>5 DEF ReadMux, registers
  <2>3. CASE stage[r] = 1 /\ mux["TEST"][p] = "DROP"
    <3>1. stage' = [stage EXCEPT ![r] = 2] /\ UNCHANGED report
      BY <1>5, <2>3 DEF ReadMux, Stage
    <3>2. [intf |-> "PHYSICAL", dest |-> mux["PHYSICAL"][p]] \in possible[r]
      BY <2>1, <2>3 DEF ReportPossible, InForce
    <3>3. QED
      BY <2>2, <2>3, <3>1, <3>2 DEF ReportsPossible, ReportPossible, TypeOK, InForce
  <2>4. CASE ~(stage[r] = 1 /\ mux["TEST"][p] = "DROP")
    <3>1. report' = [report EXCEPT ![r] = seen] /\ UNCHANGED stage
      BY <1>5, <2>1, <2>4 DEF ReadMux, Stage
    <3>2. seen \in possible[r]
      BY <2>1, <2>4 DEF ReportPossible, InForce, Stage
    <3> HIDE DEF seen
    <3>3. QED
      BY <2>2, <3>1, <3>2 DEF ReportsPossible, ReportPossible, TypeOK, InForce
  <2>5. QED
    BY <2>3, <2>4
<1>6. ASSUME NEW r \in Reader, Reported(r) PROVE ReportsPossible'
  <2>1. /\ asking' = [asking EXCEPT ![r] = -1] /\ stage' = [stage EXCEPT ![r] = 1]
        /\ report' = [report EXCEPT ![r] = Nowhere]
        /\ possible' = [possible EXCEPT ![r] = {}] /\ UNCHANGED mux
    BY <1>6 DEF Reported, registers
  <2>2. ReportPossible(r)'
    BY <2>1 DEF ReportPossible, TypeOK
  <2>3. ASSUME NEW q \in Reader, q # r PROVE ReportPossible(q)'
    BY <2>1, <2>3 DEF ReportsPossible, ReportPossible, TypeOK, InForce
  <2>4. QED
    BY <2>2, <2>3 DEF ReportsPossible
<1>7. CASE UNCHANGED vars
  BY <1>7, ReportsKept DEF vars, registers
<1>8. QED
  BY <1>1, <1>2, <1>3, <1>4, <1>5, <1>6, <1>7 DEF Next, Serve

-----------------------------------------------------------------------------

\* The invariant of a card whose Set requests take turns.
THEOREM CardInvariant == ASSUME Serialized PROVE Spec => []CardInv
<1>1. Init => CardInv
  <2> SUFFICES ASSUME Init PROVE CardInv
    OBVIOUS
  <2>1. \A w \in Writer : ~Busy(w) /\ ~half[w]
    BY DEF Init, Busy
  <2>2. TurnsTaken
    BY <2>1 DEF TurnsTaken
  <2>3. Selectors
    BY <2>1 DEF Init, Selectors, Between
  <2>4. ReportsPossible
    BY DEF Init, ReportsPossible, ReportPossible
  <2>5. QED
    BY <2>2, <2>3, <2>4, TypeInit DEF CardInv
<1>2. CardInv /\ [Next]_vars => CardInv'
  BY TypeNext, TurnsNext, SelectorsNext, ReportsNext DEF CardInv
<1>3. QED
  BY <1>1, <1>2, PTL DEF Spec

\* When no Set RPC is at work, no port takes packets from two interfaces
\* (switch_set_ingress_selector writes the multiplexers of both).
THEOREM OneInterface == ASSUME Serialized PROVE Spec => []OneInterfaceForwards
<1>1. CardInv => OneInterfaceForwards
  BY DEF CardInv, TurnsTaken, Selectors, Between, NextIs, OneInterfaceForwards
<1>2. QED
  BY <1>1, CardInvariant, PTL

\* A selector that GetSwitchConfig reports was in force while it ran, or was
\* being put in force (switch_get_ingress_selector reads in the order that fits).
THEOREM ReportsAreReal == ASSUME Serialized PROVE Spec => []ReportIsReal
<1>1. CardInv => ReportIsReal
  BY DEF CardInv, ReportsPossible, ReportPossible, ReportIsReal
<1>2. QED
  BY <1>1, CardInvariant, PTL

-----------------------------------------------------------------------------
(* Induction, and lists *)

\* A set of numbers that is not empty has a least one.
LEMMA Least ==
  ASSUME NEW T, T \subseteq Nat, T # {}
  PROVE  \E x \in T : \A y \in T : x <= y
<1> DEFINE R == OpToRel(<, Nat)
<1>1. IsWellFoundedOn(R, Nat)
  BY NatLessThanWellFounded
<1>2. \A x, y \in Nat : y < x => <<y, x>> \in R
  BY DEF OpToRel
<1> HIDE DEF R
<1>3. PICK x \in T : \A y \in T : ~(<<y, x>> \in R)
  BY <1>1, WFMin
<1>4. \A y \in T : ~(y < x)
  BY <1>2, <1>3
<1> QED
  BY <1>4

\* Induction up to a bound, over a set instead of a predicate.
LEMMA UpTo ==
  ASSUME NEW N \in Nat, NEW T, 0 \in T,
         \A n \in 0 .. N - 1 : n \in T => n + 1 \in T
  PROVE  \A n \in 0 .. N : n \in T
<1> DEFINE Missing == {n \in 0 .. N : n \notin T}
<1> SUFFICES ASSUME Missing # {} PROVE FALSE
  OBVIOUS
<1>1. Missing \subseteq Nat
  OBVIOUS
<1>2. PICK x \in Missing : \A y \in Missing : x <= y
  <2> HIDE DEF Missing
  <2> QED
    BY <1>1, Least
<1>3. x \in 0 .. N /\ x \notin T /\ x # 0
  BY <1>2
<1>4. x - 1 \in 0 .. N - 1 /\ (x - 1) + 1 = x
  BY <1>3
<1>5. x - 1 \notin T
  BY <1>3, <1>4
<1>6. x - 1 \in Missing
  BY <1>4, <1>5
<1>7. x <= x - 1
  BY <1>2, <1>6
<1> QED
  BY <1>3, <1>7

-----------------------------------------------------------------------------
(* The lists of items *)

\* The function in the definition of EachPort is there.
LEMMA EachPortSteps ==
  ASSUME NEW f
  PROVE  \E g : /\ EachPort(f) = g[NPorts]
                /\ g[0] = <<>>
                /\ \A n \in 1 .. NPorts : g[n] = g[n - 1] \o f[n - 1]
<1> DEFINE Body(g, k) == [n \in 0 .. k |-> IF n = 0 THEN <<>> ELSE g[n - 1] \o f[n - 1]]
           T == {k \in 0 .. NPorts : \E g : g = Body(g, k)}
<1>n. NPorts \in Nat
  BY CardConfigAssumption
<1>1. 0 \in T
  <2> DEFINE g == [n \in {0} |-> <<>>]
  <2>1. 0 .. 0 = {0}
    OBVIOUS
  <2>2. g = [n \in 0 .. 0 |-> IF n = 0 THEN <<>> ELSE g[n - 1] \o f[n - 1]]
    <3>1. \A n \in 0 .. 0 : n = 0
      BY <2>1
    <3>2. [n \in 0 .. 0 |-> IF n = 0 THEN <<>> ELSE g[n - 1] \o f[n - 1]]
            = [n \in 0 .. 0 |-> <<>>]
      BY <3>1, Zenon
    <3> QED
      BY <2>1, <3>2
  <2>3. \E u : u = Body(u, 0)
    BY <2>2
  <2> QED
    BY <1>n, <2>3
<1>2. ASSUME NEW k \in 0 .. NPorts - 1, k \in T PROVE k + 1 \in T
  <2>1. PICK g : g = Body(g, k)
    BY <1>2
  <2> DEFINE h == [n \in 0 .. k + 1 |-> IF n = k + 1 THEN g[k] \o f[k] ELSE g[n]]
  <2>2. \A n \in 0 .. k : h[n] = g[n]
    BY <1>n
  <2>3. ASSUME NEW n \in 0 .. k + 1
        PROVE  h[n] = IF n = 0 THEN <<>> ELSE h[n - 1] \o f[n - 1]
    <3>1. CASE n = k + 1
      <4>1. n # 0 /\ n - 1 = k /\ k \in 0 .. k
        BY <3>1, <1>n
      <4>2. h[n] = g[k] \o f[k]
        BY <3>1
      <4>3. h[k] = g[k]
        BY <2>2, <4>1
      <4> HIDE DEF h
      <4> QED
        BY <4>1, <4>2, <4>3
    <3>2. CASE n # k + 1
      <4>1. n \in 0 .. k
        BY <3>2, <1>n
      <4>2. h[n] = g[n] /\ g[n] = IF n = 0 THEN <<>> ELSE g[n - 1] \o f[n - 1]
        BY <2>1, <2>2, <4>1
      <4>3. n # 0 => n - 1 \in 0 .. k
        BY <4>1, <1>n
      <4>4. n # 0 => h[n - 1] = g[n - 1]
        BY <2>2, <4>3
      <4> HIDE DEF h
      <4> QED
        BY <4>2, <4>4
    <3> QED
      BY <3>1, <3>2
  <2>4. h = [n \in 0 .. k + 1 |-> h[n]]
    OBVIOUS
  <2>5. h = Body(h, k + 1)
    <3> HIDE DEF h
    <3> QED
      BY <2>3, <2>4
  <2>6. k + 1 \in 0 .. NPorts
    BY <1>n
  <2> HIDE DEF h
  <2> QED
    BY <2>5, <2>6
<1>3. NPorts \in T
  <2> HIDE DEF T
  <2>1. \A n \in 0 .. NPorts : n \in T
    BY <1>n, <1>1, <1>2, UpTo
  <2> QED
    BY <1>n, <2>1
<1>4. \E g : g = Body(g, NPorts)
  BY <1>3
<1> DEFINE g == CHOOSE u : u = Body(u, NPorts)
<1>5. g = Body(g, NPorts)
  BY <1>4
<1>6. EachPort(f) = g[NPorts]
  BY DEF EachPort
<1> HIDE DEF g
<1>7. g[0] = <<>>
  BY <1>n, <1>5
<1>8. \A n \in 1 .. NPorts : g[n] = g[n - 1] \o f[n - 1]
  <2>1. \A n \in 1 .. NPorts : n \in 0 .. NPorts /\ n # 0
    BY <1>n
  <2>2. \A n \in 0 .. NPorts : g[n] = IF n = 0 THEN <<>> ELSE g[n - 1] \o f[n - 1]
    BY <1>5, Zenon
  <2> QED
    BY <2>1, <2>2, Zenon
<1> QED
  BY <1>6, <1>7, <1>8

\* List s has the items of f for the first n ports, port by port: owner[a] is the
\* port that the item at a is of.
Owned(s, f, n) ==
  \E owner \in [1 .. Len(s) -> 0 .. n - 1] :
    /\ \A a \in 1 .. Len(s) : \E m \in 1 .. Len(f[owner[a]]) : s[a] = f[owner[a]][m]
    /\ \A a, b \in 1 .. Len(s) : a <= b => owner[a] <= owner[b]

Listed(s, f, n) ==
  /\ Owned(s, f, n)
  /\ \A p \in 0 .. n - 1 :
       \A m \in 1 .. Len(f[p]) : \E a \in 1 .. Len(s) : s[a] = f[p][m]

\* Where the items of two lists are in the list of both.
LEMMA Joined ==
  ASSUME NEW S, NEW s \in Seq(S), NEW t \in Seq(S)
  PROVE  /\ s \o t \in Seq(S) /\ Len(s) \in Nat /\ Len(t) \in Nat
         /\ Len(s \o t) = Len(s) + Len(t)
         /\ \A a \in 1 .. Len(s) : (s \o t)[a] = s[a] /\ a \in 1 .. Len(s \o t)
         /\ \A b \in 1 .. Len(t) : /\ (s \o t)[Len(s) + b] = t[b]
                                   /\ Len(s) + b \in 1 .. Len(s \o t)
         /\ \A c \in 1 .. Len(s \o t) :
              c \in 1 .. Len(s) \/ (c > Len(s) /\ c - Len(s) \in 1 .. Len(t)
                                      /\ (s \o t)[c] = t[c - Len(s)])
<1>1. Len(s) \in Nat /\ Len(t) \in Nat
  BY LenProperties
<1>2. s \o t \in Seq(S) /\ Len(s \o t) = Len(s) + Len(t)
  BY ConcatProperties
<1>3. \A i \in 1 .. Len(s) + Len(t) :
        (s \o t)[i] = IF i <= Len(s) THEN s[i] ELSE t[i - Len(s)]
  BY ConcatProperties
<1>4. \A a \in 1 .. Len(s) : a \in 1 .. Len(s) + Len(t) /\ a <= Len(s)
  BY <1>1
<1>5. \A b \in 1 .. Len(t) : /\ Len(s) + b \in 1 .. Len(s) + Len(t)
                             /\ ~(Len(s) + b <= Len(s)) /\ (Len(s) + b) - Len(s) = b
  BY <1>1
<1>6. \A c \in 1 .. Len(s) + Len(t) :
        c \in 1 .. Len(s) \/ (~(c <= Len(s)) /\ c > Len(s) /\ c - Len(s) \in 1 .. Len(t))
  BY <1>1
<1>7. \A a \in 1 .. Len(s) : (s \o t)[a] = s[a] /\ a \in 1 .. Len(s \o t)
  BY <1>2, <1>3, <1>4
<1>8. \A b \in 1 .. Len(t) : /\ (s \o t)[Len(s) + b] = t[b]
                             /\ Len(s) + b \in 1 .. Len(s \o t)
  BY <1>2, <1>3, <1>5
<1>9. \A c \in 1 .. Len(s \o t) :
        c \in 1 .. Len(s) \/ (c > Len(s) /\ c - Len(s) \in 1 .. Len(t)
                                /\ (s \o t)[c] = t[c - Len(s)])
  BY <1>2, <1>3, <1>6
<1> QED
  BY <1>1, <1>2, <1>7, <1>8, <1>9

\* One more port's responses.
LEMMA ListedStep ==
  ASSUME NEW S, NEW n \in Nat, NEW f, NEW s \in Seq(S), f[n] \in Seq(S),
         Listed(s, f, n)
  PROVE  s \o f[n] \in Seq(S) /\ Listed(s \o f[n], f, n + 1)
<1> DEFINE t == f[n]
           u == s \o t
<1>1. /\ u \in Seq(S) /\ Len(s) \in Nat /\ Len(t) \in Nat /\ Len(u) = Len(s) + Len(t)
      /\ \A a \in 1 .. Len(s) : u[a] = s[a] /\ a \in 1 .. Len(u)
      /\ \A b \in 1 .. Len(t) : u[Len(s) + b] = t[b] /\ Len(s) + b \in 1 .. Len(u)
      /\ \A c \in 1 .. Len(u) : c \in 1 .. Len(s) \/ (c > Len(s)
                                  /\ c - Len(s) \in 1 .. Len(t) /\ u[c] = t[c - Len(s)])
  BY Joined
<1>2. PICK owner \in [1 .. Len(s) -> 0 .. n - 1] :
        /\ \A a \in 1 .. Len(s) : \E m \in 1 .. Len(f[owner[a]]) : s[a] = f[owner[a]][m]
        /\ \A a, b \in 1 .. Len(s) : a <= b => owner[a] <= owner[b]
  BY DEF Listed, Owned
<1>t. t = f[n]
  OBVIOUS
<1> HIDE DEF t, u
<1> DEFINE both == [c \in 1 .. Len(u) |-> IF c <= Len(s) THEN owner[c] ELSE n]
<1>3. \A c \in 1 .. Len(s) : both[c] = owner[c] /\ owner[c] \in 0 .. n - 1
  <2>1. \A c \in 1 .. Len(s) : c \in 1 .. Len(u) /\ c <= Len(s)
    BY <1>1
  <2>2. \A c \in 1 .. Len(s) : both[c] = owner[c]
    BY <2>1, Zenon
  <2>3. \A c \in 1 .. Len(s) : owner[c] \in 0 .. n - 1
    BY Zenon
  <2> QED
    BY <2>2, <2>3
<1>4. \A c \in 1 .. Len(u) : c > Len(s) => both[c] = n
  BY <1>1
<1>5. \A c \in 1 .. Len(u) : (IF c <= Len(s) THEN owner[c] ELSE n) \in 0 .. (n + 1) - 1
  <2>1. \A c \in 1 .. Len(u) : c <= Len(s) => c \in 1 .. Len(s)
    BY <1>1
  <2>2. 0 .. n - 1 \subseteq 0 .. (n + 1) - 1 /\ n \in 0 .. (n + 1) - 1
    OBVIOUS
  <2> QED
    BY <2>1, <2>2
<1>6. both \in [1 .. Len(u) -> 0 .. (n + 1) - 1]
  BY <1>5
<1> HIDE DEF both
<1>8. ASSUME NEW c \in 1 .. Len(u)
      PROVE  \E m \in 1 .. Len(f[both[c]]) : u[c] = f[both[c]][m]
  <2>1. CASE c \in 1 .. Len(s)
    <3>1. u[c] = s[c] /\ both[c] = owner[c]
      BY <1>1, <1>3, <2>1
    <3>2. \E m \in 1 .. Len(f[owner[c]]) : s[c] = f[owner[c]][m]
      BY <1>2, <2>1
    <3> QED
      BY <3>1, <3>2
  <2>2. CASE c > Len(s) /\ c - Len(s) \in 1 .. Len(t) /\ u[c] = t[c - Len(s)]
    <3>1. both[c] = n /\ f[both[c]] = t
      BY <1>4, <1>t, <2>2
    <3> QED
      BY <2>2, <3>1
  <2> QED
    BY <1>1, <2>1, <2>2
<1>9. ASSUME NEW a \in 1 .. Len(u), NEW b \in 1 .. Len(u), a <= b
      PROVE  both[a] <= both[b]
  <2>1. CASE b \in 1 .. Len(s)
    <3>1. a \in 1 .. Len(s)
      BY <1>1, <1>9, <2>1
    <3> QED
      BY <1>2, <1>3, <1>9, <2>1, <3>1
  <2>2. CASE b > Len(s)
    <3>1. both[b] = n
      BY <1>4, <2>2
    <3>2. both[a] \in 0 .. (n + 1) - 1
      BY <1>6
    <3> QED
      BY <3>1, <3>2
  <2> QED
    BY <1>1, <2>1, <2>2
<1>10. Owned(u, f, n + 1)
  BY <1>6, <1>8, <1>9 DEF Owned
<1>11. ASSUME NEW p \in 0 .. (n + 1) - 1, NEW m \in 1 .. Len(f[p])
       PROVE  \E a \in 1 .. Len(u) : u[a] = f[p][m]
  <2>1. CASE p \in 0 .. n - 1
    <3>1. PICK a \in 1 .. Len(s) : s[a] = f[p][m]
      BY <2>1 DEF Listed
    <3> QED
      BY <1>1, <3>1
  <2>2. CASE p = n
    <3>1. m \in 1 .. Len(t) /\ t[m] = f[p][m]
      BY <1>t, <2>2
    <3> QED
      BY <1>1, <3>1
  <2> QED
    BY <2>1, <2>2
<1> QED
  BY <1>1, <1>10, <1>11 DEF Listed, t, u

\* EachPort has the items of all ports, port by port.
LEMMA EachPortListed ==
  ASSUME NEW S, NEW f, \A p \in Port : f[p] \in Seq(S)
  PROVE  EachPort(f) \in Seq(S) /\ Listed(EachPort(f), f, NPorts)
<1>n. NPorts \in Nat
  BY CardConfigAssumption
<1>1. PICK g : /\ EachPort(f) = g[NPorts]
               /\ g[0] = <<>>
               /\ \A n \in 1 .. NPorts : g[n] = g[n - 1] \o f[n - 1]
  BY EachPortSteps
<1> DEFINE T == {n \in 0 .. NPorts : g[n] \in Seq(S) /\ Listed(g[n], f, n)}
<1>2. 0 \in T
  <2>1. g[0] \in Seq(S) /\ Len(g[0]) = 0
    BY <1>1
  <2>2. 1 .. Len(g[0]) = {} /\ 0 .. (0 - 1) = {}
    BY <2>1
  <2>3. Owned(g[0], f, 0)
    <3>1. [a \in 1 .. Len(g[0]) |-> 0] \in [1 .. Len(g[0]) -> 0 .. (0 - 1)]
      BY <2>2
    <3> QED
      BY <2>2, <3>1 DEF Owned
  <2> QED
    BY <1>n, <2>1, <2>2, <2>3 DEF Listed
<1>3. ASSUME NEW n \in 0 .. NPorts - 1, n \in T PROVE n + 1 \in T
  <2>1. n \in Nat /\ n \in Port /\ n + 1 \in 1 .. NPorts /\ (n + 1) - 1 = n
        /\ n + 1 \in 0 .. NPorts
    BY <1>n DEF Port
  <2>2. g[n] \in Seq(S) /\ Listed(g[n], f, n) /\ f[n] \in Seq(S)
    BY <1>3, <2>1
  <2>3. g[n] \o f[n] \in Seq(S) /\ Listed(g[n] \o f[n], f, n + 1)
    BY <2>1, <2>2, ListedStep
  <2>4. g[n + 1] = g[n] \o f[n]
    BY <1>1, <2>1
  <2> QED
    BY <2>1, <2>3, <2>4
<1> HIDE DEF T
<1>4. \A n \in 0 .. NPorts : n \in T
  BY <1>n, <1>2, <1>3, UpTo
<1>5. NPorts \in T
  BY <1>n, <1>4
<1> QED
  BY <1>1, <1>5 DEF T

\* Items of one response are next to each other.
Grouped(q) ==
  \A a, b, c \in 1 .. Len(q) :
    a <= b /\ b <= c /\ q[a].unit = q[c].unit => q[b].unit = q[a].unit

\* A sequence is a list.
LEMMA SeqIsList ==
  ASSUME NEW S, NEW q \in Seq(S)
  PROVE  IsList(q) /\ Len(q) \in Nat /\ \A n \in 1 .. Len(q) : q[n] \in S
<1>1. Len(q) \in Nat /\ q \in [1 .. Len(q) -> S]
  BY LenProperties
<1> QED
  BY <1>1 DEF IsList

\* A list is a sequence of what it holds.
LEMMA ListIsSeq ==
  ASSUME NEW q, IsList(q)
  PROVE  q \in Seq({q[n] : n \in 1 .. Len(q)})
<1> DEFINE S == {q[n] : n \in 1 .. Len(q)}
<1>1. Len(q) \in Nat /\ q = [n \in 1 .. Len(q) |-> q[n]]
  BY DEF IsList
<1>2. \A n \in 1 .. Len(q) : q[n] \in S
  OBVIOUS
<1> HIDE DEF S
<1>3. [n \in 1 .. Len(q) |-> q[n]] \in Seq(S)
  BY <1>1, <1>2, IsASeq
<1>4. q \in Seq(S)
  BY <1>1, <1>3
<1> QED
  BY <1>4 DEF S

\* A list after its first n items.
LEMMA ListRest ==
  ASSUME NEW q, IsList(q), NEW n \in 1 .. Len(q)
  PROVE  /\ IsList(SubSeq(q, n + 1, Len(q)))
         /\ Len(SubSeq(q, n + 1, Len(q))) = Len(q) - n
         /\ \A m \in 1 .. Len(q) - n : SubSeq(q, n + 1, Len(q))[m] = q[n + m]
<1> DEFINE S == {q[m] : m \in 1 .. Len(q)}
           t == SubSeq(q, n + 1, Len(q))
<1>1. q \in Seq(S) /\ Len(q) \in Nat
  BY ListIsSeq DEF IsList
<1> HIDE DEF S
<1>2. \A i \in (n + 1) .. Len(q) : q[i] \in S
  BY <1>1, SeqIsList
<1>3. n + 1 \in Int /\ Len(q) \in Int
  BY <1>1
<1>4. n + 1 \in 1 .. Len(q) + 1 /\ Len(q) \in (n + 1) - 1 .. Len(q)
  BY <1>1
<1>5. t \in Seq(S)
  BY <1>1, <1>4, SubSeqProperties
<1>6. Len(t) = IF n + 1 <= Len(q) THEN Len(q) - (n + 1) + 1 ELSE 0
  BY <1>1, <1>4, SubSeqProperties
<1>7. \A i \in 1 .. Len(q) - (n + 1) + 1 : t[i] = q[(n + 1) + i - 1]
  BY <1>1, <1>4, SubSeqProperties
<1>8. Len(t) = Len(q) - n
  BY <1>1, <1>6
<1>9. \A i \in 1 .. Len(q) - n : i \in 1 .. Len(q) - (n + 1) + 1 /\ (n + 1) + i - 1 = n + i
  BY <1>1
<1>10. \A m \in 1 .. Len(q) - n : t[m] = q[n + m]
  BY <1>7, <1>9
<1> QED
  BY <1>5, <1>8, <1>10, SeqIsList

\* A list without its first item.
LEMMA ListTail ==
  ASSUME NEW q, IsList(q), q # <<>>
  PROVE  /\ Len(q) \in Nat /\ Len(q) > 0 /\ Head(q) = q[1]
         /\ IsList(Tail(q))
         /\ Len(Tail(q)) = Len(q) - 1
         /\ \A m \in 1 .. Len(q) - 1 : Tail(q)[m] = q[m + 1]
<1> DEFINE S == {q[m] : m \in 1 .. Len(q)}
<1>1. q \in Seq(S)
  BY ListIsSeq
<1> HIDE DEF S
<1>2. Len(q) \in Nat /\ Len(q) # 0
  BY <1>1, EmptySeq, LenProperties
<1>3. Head(q) = q[1]
  BY <1>1, HeadTailProperties
<1>4. Tail(q) \in Seq(S)
  BY <1>1, HeadTailProperties
<1>5. Len(Tail(q)) = Len(q) - 1
  BY <1>1, HeadTailProperties
<1>6. \A m \in 1 .. Len(Tail(q)) : Tail(q)[m] = q[m + 1]
  BY <1>1, HeadTailProperties
<1>7. IsList(Tail(q))
  BY <1>4, SeqIsList
<1>8. Len(q) > 0
  BY <1>2
<1>9. \A m \in 1 .. Len(q) - 1 : Tail(q)[m] = q[m + 1]
  BY <1>5, <1>6
<1> QED
  BY <1>2, <1>3, <1>5, <1>7, <1>8, <1>9

\* An empty list is the empty sequence.
LEMMA ListEmpty ==
  ASSUME NEW q, IsList(q), Len(q) = 0
  PROVE  q = <<>>
  BY ListIsSeq, EmptySeq

\* Sequences by the set of their elements, as the responses are put together.
LEMMA One == ASSUME NEW S, NEW x \in S PROVE <<x>> \in Seq(S)
  OBVIOUS
LEMMA None == ASSUME NEW S PROVE <<>> \in Seq(S)
  OBVIOUS
LEMMA Both == ASSUME NEW S, NEW s \in Seq(S), NEW t \in Seq(S) PROVE s \o t \in Seq(S)
  BY ConcatProperties

\* What SetSwitchConfig asks for is one response.
LEMMA SwitchListed ==
  ASSUME NEW r, IsList(r.ingress), IsList(r.egress)
  PROVE  LET q == SwitchItems(r)
         IN  /\ IsList(q)
             /\ \A n \in 1 .. Len(q) : /\ q[n].unit = 0
                                       /\ q[n].op \in {"ingress", "egress", "bypass"}
<1> DEFINE in(n)  == Ingress(r.ingress[n].index, r.ingress[n].intf, r.ingress[n].dest)
           out(n) == Egress(r.egress[n].index, r.egress[n].intf)
           S == {in(n) : n \in 1 .. Len(r.ingress)} \cup {out(n) : n \in 1 .. Len(r.egress)}
                  \cup {Bypass(r.bypass)}
           s == [n \in DOMAIN r.ingress |-> in(n)]
           t == [n \in DOMAIN r.egress |-> out(n)]
           u == IF r.bypass = "unknown" THEN <<>> ELSE <<Bypass(r.bypass)>>
<1>1. /\ DOMAIN r.ingress = 1 .. Len(r.ingress) /\ Len(r.ingress) \in Nat
      /\ DOMAIN r.egress = 1 .. Len(r.egress) /\ Len(r.egress) \in Nat
  BY DEF IsList
<1>2. /\ \A n \in 1 .. Len(r.ingress) : in(n) \in S
      /\ \A n \in 1 .. Len(r.egress) : out(n) \in S
      /\ Bypass(r.bypass) \in S
  OBVIOUS
<1>3. \A x \in S : x.unit = 0 /\ x.op \in {"ingress", "egress", "bypass"}
  <2>1. \A n : in(n).unit = 0 /\ in(n).op = "ingress"
    BY DEF Ingress
  <2>2. \A n : out(n).unit = 0 /\ out(n).op = "egress"
    BY DEF Egress
  <2>3. Bypass(r.bypass).unit = 0 /\ Bypass(r.bypass).op = "bypass"
    BY DEF Bypass
  <2> HIDE DEF in, out
  <2> QED
    BY <2>1, <2>2, <2>3
<1> HIDE DEF S
<1>4. s \in Seq(S)
  <2>1. [n \in 1 .. Len(r.ingress) |-> in(n)] \in Seq(S)
    <3> HIDE DEF in
    <3> QED
      BY <1>1, <1>2, IsASeq
  <2> QED
    BY <1>1, <2>1
<1>5. t \in Seq(S)
  <2>1. [n \in 1 .. Len(r.egress) |-> out(n)] \in Seq(S)
    <3> HIDE DEF out
    <3> QED
      BY <1>1, <1>2, IsASeq
  <2> QED
    BY <1>1, <2>1
<1>6. u \in Seq(S)
  BY <1>2, One, None
<1>7. SwitchItems(r) = (s \o t) \o u
  BY DEF SwitchItems
<1> HIDE DEF s, t, u
<1>8. (s \o t) \o u \in Seq(S)
  BY <1>4, <1>5, <1>6, Both
<1> QED
  BY <1>3, <1>7, <1>8, SeqIsList

\* What SetPortConfig asks for is a response for each port.
LEMMA PortListed ==
  ASSUME NEW r, r.port \in Int
  PROVE  LET q == PortItems(r)
         IN  /\ IsList(q)
             /\ Grouped(q)
             /\ \A n \in 1 .. Len(q) :
                  q[n].op = "refused" \/ (q[n].op = "feature" /\ q[n].what \in Feature)
<1> DEFINE set(p, what, value) ==
             IF value = "unknown" THEN <<>> ELSE <<Feat(p, p, what, value)>>
           each == [p \in Port |-> set(p, "enabled", r.state) \o set(p, "fec", r.fec)
                                     \o set(p, "loopback", r.loopback)
                                     \o set(p, "limited", r.limited)]
           Values == {r.state, r.fec, r.loopback, r.limited}
           S(p) == {Feat(p, p, what, value) : what \in Feature, value \in Values}
           X == UNION {S(p) : p \in Port}
<1>1. \A p : \A x \in S(p) : x.unit = p /\ x.op = "feature" /\ x.what \in Feature
  BY DEF Feat
<1>2. ASSUME NEW p \in Port, NEW what \in Feature, NEW value \in Values
      PROVE  set(p, what, value) \in Seq(S(p))
  <2>1. Feat(p, p, what, value) \in S(p)
    OBVIOUS
  <2> HIDE DEF S
  <2> QED
    BY <2>1, One, None
<1>3. \A what : what \in {"enabled", "fec", "loopback", "limited"} => what \in Feature
  BY DEF Feature
<1>4. ASSUME NEW p \in Port PROVE each[p] \in Seq(S(p))
  <2> HIDE DEF S, set
  <2>1. /\ set(p, "enabled", r.state) \in Seq(S(p)) /\ set(p, "fec", r.fec) \in Seq(S(p))
        /\ set(p, "loopback", r.loopback) \in Seq(S(p))
        /\ set(p, "limited", r.limited) \in Seq(S(p))
    <3>1. r.state \in Values /\ r.fec \in Values /\ r.loopback \in Values
          /\ r.limited \in Values
      OBVIOUS
    <3>2. \A what \in Feature, value \in Values : set(p, what, value) \in Seq(S(p))
      BY <1>2
    <3> HIDE DEF Values
    <3> QED
      BY <1>3, <3>1, <3>2
  <2>2. set(p, "enabled", r.state) \o set(p, "fec", r.fec) \in Seq(S(p))
    BY <2>1, Both
  <2>3. set(p, "enabled", r.state) \o set(p, "fec", r.fec)
          \o set(p, "loopback", r.loopback) \in Seq(S(p))
    BY <2>1, <2>2, Both
  <2>4. set(p, "enabled", r.state) \o set(p, "fec", r.fec)
          \o set(p, "loopback", r.loopback) \o set(p, "limited", r.limited) \in Seq(S(p))
    BY <2>1, <2>3, Both
  <2> QED
    BY <2>4
<1>5. \A p \in Port, n \in Nat :
        n \in 1 .. Len(each[p]) => /\ each[p][n].unit = p /\ each[p][n].op = "feature"
                                  /\ each[p][n].what \in Feature
  <2> HIDE DEF each, S
  <2>1. \A p \in Port : \A n \in 1 .. Len(each[p]) : each[p][n] \in S(p)
    BY <1>4, SeqIsList
  <2> QED
    BY <1>1, <2>1
<1>6. \A p \in Port : each[p] \in Seq(X)
  <2>1. \A p \in Port : S(p) \subseteq X
    OBVIOUS
  <2> HIDE DEF each, S, X
  <2> QED
    BY <1>4, <2>1, SeqMonotonic
<1>7. PortItems(r) = IF r.port > NPorts - 1 THEN <<Refused(r.port)>>
                     ELSE IF r.port < 0 THEN EachPort(each) ELSE each[r.port]
  BY DEF PortItems
<1> HIDE DEF each, S, X, set
<1>8. CASE r.port > NPorts - 1
  <2> DEFINE q == PortItems(r)
  <2>1. q = <<Refused(r.port)>> /\ Len(q) = 1 /\ q[1] = Refused(r.port)
    BY <1>7, <1>8
  <2>2. q \in Seq({Refused(r.port)})
    BY <2>1
  <2>3. IsList(q) /\ \A n \in 1 .. Len(q) : q[n] = Refused(r.port)
    BY <2>2, SeqIsList
  <2> HIDE DEF q
  <2>4. Refused(r.port).op = "refused"
    BY DEF Refused
  <2> QED
    BY <2>3, <2>4 DEF Grouped, q
<1>9. CASE r.port <= NPorts - 1 /\ r.port >= 0
  <2>1. r.port \in Port /\ PortItems(r) = each[r.port]
    BY <1>7, <1>9, CardConfigAssumption DEF Port
  <2>2. IsList(each[r.port]) /\ Len(each[r.port]) \in Nat
    BY <1>6, <2>1, SeqIsList
  <2>3. \A n \in 1 .. Len(each[r.port]) :
          /\ each[r.port][n].unit = r.port /\ each[r.port][n].op = "feature"
          /\ each[r.port][n].what \in Feature
    BY <1>5, <2>1, <2>2
  <2>4. Grouped(each[r.port])
    BY <2>3 DEF Grouped
  <2> QED
    BY <2>1, <2>2, <2>3, <2>4
<1>10. CASE r.port < 0
  <2> DEFINE q == EachPort(each)
  <2>1. PortItems(r) = q
    BY <1>7, <1>10, CardConfigAssumption
  <2>2. q \in Seq(X) /\ Listed(q, each, NPorts)
    BY <1>6, EachPortListed
  <2> HIDE DEF q
  <2>3. PICK owner \in [1 .. Len(q) -> 0 .. NPorts - 1] :
          /\ \A a \in 1 .. Len(q) : \E m \in 1 .. Len(each[owner[a]]) : q[a] = each[owner[a]][m]
          /\ \A a, b \in 1 .. Len(q) : a <= b => owner[a] <= owner[b]
    BY <2>2 DEF Listed, Owned
  <2>4. \A a \in 1 .. Len(q) : owner[a] \in Port
    BY <2>3 DEF Port
  <2>5. ASSUME NEW a \in 1 .. Len(q)
        PROVE  q[a].unit = owner[a] /\ q[a].op = "feature" /\ q[a].what \in Feature
    <3>1. PICK m \in 1 .. Len(each[owner[a]]) : q[a] = each[owner[a]][m]
      BY <2>3
    <3>2. m \in Nat
      OBVIOUS
    <3> QED
      BY <1>5, <2>4, <3>1, <3>2
  <2>6. Grouped(q)
    <3> SUFFICES ASSUME NEW a \in 1 .. Len(q), NEW b \in 1 .. Len(q), NEW c \in 1 .. Len(q),
                        a <= b, b <= c, q[a].unit = q[c].unit
                 PROVE  q[b].unit = q[a].unit
      BY DEF Grouped
    <3>1. owner[a] <= owner[b] /\ owner[b] <= owner[c] /\ owner[a] = owner[c]
      BY <2>3, <2>5
    <3>2. owner[a] \in Int /\ owner[b] \in Int /\ owner[c] \in Int
      BY <2>4 DEF Port
    <3>3. owner[a] = owner[b]
      BY <3>1, <3>2
    <3> QED
      BY <2>5, <3>3
  <2>7. IsList(q)
    BY <2>2, SeqIsList
  <2> QED
    BY <2>1, <2>5, <2>6, <2>7
<1>11. NPorts \in Nat
  BY CardConfigAssumption
<1> QED
  BY <1>8, <1>9, <1>10, <1>11

-----------------------------------------------------------------------------
(* The items of set_defaults_one_to_one, in its order *)

\* When an item comes: ports down, drops, ingress, egress, bypass, ports up.
Phase(i) ==
  IF i.op = "drop" THEN 2
  ELSE IF i.op = "ingress" THEN 3
  ELSE IF i.op = "egress" THEN 4
  ELSE IF i.op = "bypass" THEN 5
  ELSE IF i.to = "off" THEN 1 ELSE 6

DownSet   == {Feat(0, p, "loopback", "off") : p \in Port}
               \cup {Feat(0, p, "enabled", "off") : p \in Port}
DropSet(intf) == {Drop(intf, p) : p \in Port}
InSet     == {Ingress(p, "PHYSICAL", App) : p \in Port}
OutSet    == {Egress(p, "PHYSICAL") : p \in Port}
BypassSet == {Bypass("STRAIGHT")}
UpSet     == {Feat(0, p, "fec", "on") : p \in Port}
               \cup {Feat(0, p, "enabled", "on") : p \in Port}
OneToOneSet ==
  DownSet \cup DropSet("PHYSICAL") \cup DropSet("TEST") \cup InSet \cup OutSet
    \cup BypassSet \cup UpSet

\* A list of the items of X, all of them, in phases lo to hi in order.
Phased(q, X, lo, hi) ==
  /\ q \in Seq(X)
  /\ \A x \in X : \E n \in 1 .. Len(q) : q[n] = x
  /\ \A x \in X : Phase(x) \in lo .. hi
  /\ \A a, b \in 1 .. Len(q) : a <= b => Phase(q[a]) <= Phase(q[b])

\* A list of phases goes on with a list of later ones.
LEMMA PhasedJoin ==
  ASSUME NEW s, NEW t, NEW X, NEW Y, NEW lo \in Int, NEW mid \in Int, NEW at \in Int,
         NEW hi \in Int, mid <= at, lo <= at, mid <= hi,
         Phased(s, X, lo, mid), Phased(t, Y, at, hi)
  PROVE  Phased(s \o t, X \cup Y, lo, hi)
<1> DEFINE Z == X \cup Y
           u == s \o t
<1>1. s \in Seq(X) /\ t \in Seq(Y) /\ X \subseteq Z /\ Y \subseteq Z
  BY DEF Phased
<1> HIDE DEF Z
<1>2. s \in Seq(Z) /\ t \in Seq(Z)
  BY <1>1, SeqMonotonic
<1>3. /\ u \in Seq(Z) /\ Len(s) \in Nat /\ Len(t) \in Nat /\ Len(u) = Len(s) + Len(t)
      /\ \A a \in 1 .. Len(s) : u[a] = s[a] /\ a \in 1 .. Len(u)
      /\ \A b \in 1 .. Len(t) : u[Len(s) + b] = t[b] /\ Len(s) + b \in 1 .. Len(u)
      /\ \A c \in 1 .. Len(u) : c \in 1 .. Len(s) \/ (c > Len(s)
                                  /\ c - Len(s) \in 1 .. Len(t) /\ u[c] = t[c - Len(s)])
  BY <1>2, Joined
<1> HIDE DEF u
<1>4. ASSUME NEW x \in Z PROVE \E n \in 1 .. Len(u) : u[n] = x
  <2>1. CASE x \in X
    <3>1. PICK a \in 1 .. Len(s) : s[a] = x
      BY <2>1 DEF Phased
    <3> QED
      BY <1>3, <3>1
  <2>2. CASE x \in Y
    <3>1. PICK b \in 1 .. Len(t) : t[b] = x
      BY <2>2 DEF Phased
    <3> QED
      BY <1>3, <3>1
  <2> QED
    BY <2>1, <2>2 DEF Z
<1>5. /\ \A x \in X : Phase(x) \in lo .. mid
      /\ \A x \in Y : Phase(x) \in at .. hi
      /\ \A a, b \in 1 .. Len(s) : a <= b => Phase(s[a]) <= Phase(s[b])
      /\ \A a, b \in 1 .. Len(t) : a <= b => Phase(t[a]) <= Phase(t[b])
  BY DEF Phased
<1>6. \A x \in Z : Phase(x) \in lo .. hi
  <2>1. lo .. mid \subseteq lo .. hi /\ at .. hi \subseteq lo .. hi
    OBVIOUS
  <2> QED
    BY <1>5, <2>1 DEF Z
<1>7. (\A a \in 1 .. Len(s) : s[a] \in X) /\ \A b \in 1 .. Len(t) : t[b] \in Y
  BY <1>1, SeqIsList
<1>8. ASSUME NEW a \in 1 .. Len(u), NEW b \in 1 .. Len(u), a <= b
      PROVE  Phase(u[a]) <= Phase(u[b])
  <2>1. CASE b \in 1 .. Len(s)
    <3>1. a \in 1 .. Len(s)
      BY <1>3, <1>8, <2>1
    <3> QED
      BY <1>3, <1>5, <1>8, <2>1, <3>1
  <2>2. CASE a \in 1 .. Len(s) /\ b > Len(s)
    <3>1. u[a] = s[a] /\ s[a] \in X
      BY <1>3, <1>7, <2>2
    <3>2. b - Len(s) \in 1 .. Len(t) /\ u[b] = t[b - Len(s)]
      BY <1>3, <2>2
    <3>3. u[b] \in Y
      BY <1>7, <3>2
    <3>4. Phase(u[a]) \in lo .. mid /\ Phase(u[b]) \in at .. hi
      BY <1>5, <3>1, <3>3
    <3> QED
      BY <3>4
  <2>3. CASE a > Len(s)
    <3>1. a - Len(s) \in 1 .. Len(t) /\ u[a] = t[a - Len(s)]
      BY <1>3, <2>3
    <3>2. b > Len(s)
      BY <1>3, <1>8, <2>3
    <3>3. b - Len(s) \in 1 .. Len(t) /\ u[b] = t[b - Len(s)]
      BY <1>3, <3>2
    <3>4. a - Len(s) <= b - Len(s)
      BY <1>3, <1>8
    <3> QED
      BY <1>5, <3>1, <3>3, <3>4
  <2>4. b \in 1 .. Len(s) \/ (a \in 1 .. Len(s) /\ b > Len(s)) \/ a > Len(s)
    BY <1>3
  <2> QED
    BY <2>1, <2>2, <2>3, <2>4
<1> QED
  BY <1>3, <1>4, <1>6, <1>8 DEF Phased, Z, u

\* What is done for each port in one phase.
LEMMA EachPhased ==
  ASSUME NEW f, NEW X, NEW c \in Int, \A x \in X : Phase(x) = c,
         \A p \in Port : f[p] \in Seq(X),
         \A x \in X : \E p \in Port : \E m \in 1 .. Len(f[p]) : f[p][m] = x
  PROVE  Phased(EachPort(f), X, c, c)
<1> DEFINE q == EachPort(f)
<1>1. q \in Seq(X) /\ Listed(q, f, NPorts)
  BY EachPortListed
<1> HIDE DEF q
<1>2. \A n \in 1 .. Len(q) : q[n] \in X
  BY <1>1, SeqIsList
<1>3. ASSUME NEW x \in X PROVE \E n \in 1 .. Len(q) : q[n] = x
  <2>1. PICK p \in Port : \E m \in 1 .. Len(f[p]) : f[p][m] = x
    OBVIOUS
  <2>2. PICK m \in 1 .. Len(f[p]) : f[p][m] = x
    BY <2>1
  <2>3. p \in 0 .. NPorts - 1
    BY DEF Port
  <2> QED
    BY <1>1, <2>2, <2>3 DEF Listed
<1>4. \A x \in X : Phase(x) \in c .. c
  OBVIOUS
<1>5. \A a, b \in 1 .. Len(q) : a <= b => Phase(q[a]) <= Phase(q[b])
  <2>1. c <= c
    OBVIOUS
  <2> QED
    BY <1>2, <2>1
<1> QED
  BY <1>1, <1>3, <1>4, <1>5 DEF Phased, q

\* What one port answers: two responses, or one.
LEMMA Pair == ASSUME NEW S, NEW x \in S, NEW y \in S
              PROVE  <<x, y>> \in Seq(S) /\ Len(<<x, y>>) = 2
                     /\ <<x, y>>[1] = x /\ <<x, y>>[2] = y
  OBVIOUS
LEMMA Single == ASSUME NEW S, NEW x \in S
                PROVE  <<x>> \in Seq(S) /\ Len(<<x>>) = 1 /\ <<x>>[1] = x
  OBVIOUS

\* Two responses of one phase for each port.
LEMMA TwoEach ==
  ASSUME NEW f, NEW F, NEW G, NEW X, NEW c \in Int,
         \A x \in X : Phase(x) = c,
         \A p \in Port : f[p] = <<F[p], G[p]>> /\ F[p] \in X /\ G[p] \in X,
         \A x \in X : \E p \in Port : x = F[p] \/ x = G[p]
  PROVE  Phased(EachPort(f), X, c, c)
<1>1. \A p \in Port : f[p] \in Seq(X)
  BY Pair
<1>2. \A p \in Port : Len(f[p]) = 2 /\ f[p][1] = F[p] /\ f[p][2] = G[p]
  BY Pair
<1>3. ASSUME NEW x \in X PROVE \E p \in Port : \E m \in 1 .. Len(f[p]) : f[p][m] = x
  <2>1. PICK p \in Port : x = F[p] \/ x = G[p]
    OBVIOUS
  <2>2. 1 \in 1 .. Len(f[p]) /\ 2 \in 1 .. Len(f[p])
    BY <1>2
  <2> QED
    BY <1>2, <2>1, <2>2
<1> QED
  BY <1>1, <1>3, EachPhased

\* One response of a phase for each port.
LEMMA OneEach ==
  ASSUME NEW f, NEW F, NEW X, NEW c \in Int,
         \A x \in X : Phase(x) = c,
         \A p \in Port : f[p] = <<F[p]>> /\ F[p] \in X,
         \A x \in X : \E p \in Port : x = F[p]
  PROVE  Phased(EachPort(f), X, c, c)
<1>1. \A p \in Port : f[p] \in Seq(X)
  BY Single
<1>2. \A p \in Port : Len(f[p]) = 1 /\ f[p][1] = F[p]
  OBVIOUS
<1>3. ASSUME NEW x \in X PROVE \E p \in Port : \E m \in 1 .. Len(f[p]) : f[p][m] = x
  <2>1. PICK p \in Port : x = F[p]
    OBVIOUS
  <2>2. 1 \in 1 .. Len(f[p])
    BY <1>2
  <2> QED
    BY <1>2, <2>1, <2>2
<1> QED
  BY <1>1, <1>3, EachPhased

\* The next block of the defaults.
LEMMA Then ==
  ASSUME NEW s, NEW t, NEW X, NEW Y, NEW b \in 1 .. 6, NEW c \in 1 .. 6, b <= c,
         Phased(s, X, 1, b), Phased(t, Y, c, c)
  PROVE  Phased(s \o t, X \cup Y, 1, c)
<1>1. 1 \in Int /\ b \in Int /\ c \in Int /\ 1 <= c
  OBVIOUS
<1> QED
  BY <1>1, PhasedJoin

\* What SetDefaults with the profile one to one asks for, in order.
LEMMA OneToOneItems ==
  ASSUME NEW r, r.profile = "one_to_one"
  PROVE  Phased(DefaultItems(r), OneToOneSet, 1, 6)
<1> DEFINE down == [p \in Port |-> <<Feat(0, p, "loopback", "off"),
                                      Feat(0, p, "enabled", "off")>>]
           up   == [p \in Port |-> <<Feat(0, p, "fec", "on"),
                                      Feat(0, p, "enabled", "on")>>]
           drop(intf) == EachPort([p \in Port |-> <<Drop(intf, p)>>])
           ins   == EachPort([p \in Port |-> <<Ingress(p, "PHYSICAL", App)>>])
           outs  == EachPort([p \in Port |-> <<Egress(p, "PHYSICAL")>>])
<1>1. DefaultItems(r) = EachPort(down) \o drop("PHYSICAL") \o drop("TEST")
                          \o ins \o outs \o <<Bypass("STRAIGHT")>> \o EachPort(up)
  BY DEF DefaultItems
<1>2. Phased(EachPort(down), DownSet, 1, 1)
  <2> DEFINE F == [p \in Port |-> Feat(0, p, "loopback", "off")]
             G == [p \in Port |-> Feat(0, p, "enabled", "off")]
  <2>1. \A p \in Port : F[p] = Feat(0, p, "loopback", "off") /\ G[p] = Feat(0, p, "enabled", "off")
                         /\ down[p] = <<F[p], G[p]>>
    OBVIOUS
  <2>2. \A x \in DownSet : Phase(x) = 1
    BY DEF DownSet, Phase, Feat
  <2> HIDE DEF F, G, down
  <2>3. \A p \in Port : F[p] \in DownSet /\ G[p] \in DownSet
    BY <2>1 DEF DownSet
  <2>4. \A x \in DownSet : \E p \in Port : x = F[p] \/ x = G[p]
    BY <2>1 DEF DownSet
  <2> QED
    BY <2>1, <2>2, <2>3, <2>4, TwoEach
<1>3. Phased(EachPort(up), UpSet, 6, 6)
  <2> DEFINE F == [p \in Port |-> Feat(0, p, "fec", "on")]
             G == [p \in Port |-> Feat(0, p, "enabled", "on")]
  <2>1. \A p \in Port : F[p] = Feat(0, p, "fec", "on") /\ G[p] = Feat(0, p, "enabled", "on")
                         /\ up[p] = <<F[p], G[p]>>
    OBVIOUS
  <2>2. \A x \in UpSet : Phase(x) = 6
    BY DEF UpSet, Phase, Feat
  <2> HIDE DEF F, G, up
  <2>3. \A p \in Port : F[p] \in UpSet /\ G[p] \in UpSet
    BY <2>1 DEF UpSet
  <2>4. \A x \in UpSet : \E p \in Port : x = F[p] \/ x = G[p]
    BY <2>1 DEF UpSet
  <2> QED
    BY <2>1, <2>2, <2>3, <2>4, TwoEach
<1>4. ASSUME NEW intf PROVE Phased(drop(intf), DropSet(intf), 2, 2)
  <2> DEFINE f == [p \in Port |-> <<Drop(intf, p)>>]
             F == [p \in Port |-> Drop(intf, p)]
  <2>1. \A p \in Port : F[p] = Drop(intf, p) /\ f[p] = <<F[p]>>
    OBVIOUS
  <2>2. \A x \in DropSet(intf) : Phase(x) = 2
    BY DEF DropSet, Phase, Drop
  <2>3. drop(intf) = EachPort(f)
    OBVIOUS
  <2> HIDE DEF F, f, drop
  <2>4. \A p \in Port : F[p] \in DropSet(intf)
    BY <2>1 DEF DropSet
  <2>5. \A x \in DropSet(intf) : \E p \in Port : x = F[p]
    BY <2>1 DEF DropSet
  <2>6. Phased(EachPort(f), DropSet(intf), 2, 2)
    BY <2>1, <2>2, <2>4, <2>5, OneEach
  <2> QED
    BY <2>3, <2>6
<1>5. Phased(ins, InSet, 3, 3)
  <2> DEFINE f == [p \in Port |-> <<Ingress(p, "PHYSICAL", App)>>]
             F == [p \in Port |-> Ingress(p, "PHYSICAL", App)]
  <2>1. \A p \in Port : F[p] = Ingress(p, "PHYSICAL", App) /\ f[p] = <<F[p]>>
    OBVIOUS
  <2>2. \A x \in InSet : Phase(x) = 3
    BY DEF InSet, Phase, Ingress
  <2>3. ins = EachPort(f)
    OBVIOUS
  <2> HIDE DEF F, f, ins
  <2>4. \A p \in Port : F[p] \in InSet
    BY <2>1 DEF InSet
  <2>5. \A x \in InSet : \E p \in Port : x = F[p]
    BY <2>1 DEF InSet
  <2>6. Phased(EachPort(f), InSet, 3, 3)
    BY <2>1, <2>2, <2>4, <2>5, OneEach
  <2> QED
    BY <2>3, <2>6
<1>6. Phased(outs, OutSet, 4, 4)
  <2> DEFINE f == [p \in Port |-> <<Egress(p, "PHYSICAL")>>]
             F == [p \in Port |-> Egress(p, "PHYSICAL")]
  <2>1. \A p \in Port : F[p] = Egress(p, "PHYSICAL") /\ f[p] = <<F[p]>>
    OBVIOUS
  <2>2. \A x \in OutSet : Phase(x) = 4
    BY DEF OutSet, Phase, Egress
  <2>3. outs = EachPort(f)
    OBVIOUS
  <2> HIDE DEF F, f, outs
  <2>4. \A p \in Port : F[p] \in OutSet
    BY <2>1 DEF OutSet
  <2>5. \A x \in OutSet : \E p \in Port : x = F[p]
    BY <2>1 DEF OutSet
  <2>6. Phased(EachPort(f), OutSet, 4, 4)
    BY <2>1, <2>2, <2>4, <2>5, OneEach
  <2> QED
    BY <2>3, <2>6
<1>7. Phased(<<Bypass("STRAIGHT")>>, BypassSet, 5, 5)
  <2> DEFINE x == Bypass("STRAIGHT")
  <2>1. Phase(x) = 5
    BY DEF Phase, Bypass
  <2>2. BypassSet = {x}
    BY DEF BypassSet
  <2> HIDE DEF x
  <2>3. <<x>> \in Seq({x}) /\ Len(<<x>>) = 1 /\ <<x>>[1] = x
    BY Single
  <2>4. Phased(<<x>>, {x}, 5, 5)
    <3>1. \A n \in 1 .. 1 : n = 1
      OBVIOUS
    <3>2. 1 \in 1 .. 1 /\ 5 \in 5 .. 5 /\ 5 <= 5
      OBVIOUS
    <3> QED
      BY <2>1, <2>3, <3>1, <3>2 DEF Phased
  <2> QED
    BY <2>2, <2>4 DEF x
<1> DEFINE y == <<Bypass("STRAIGHT")>>
           d == EachPort(down)
           u == EachPort(up)
           dp == drop("PHYSICAL")
           dt == drop("TEST")
<1>8. /\ Phased(d, DownSet, 1, 1) /\ Phased(dp, DropSet("PHYSICAL"), 2, 2)
      /\ Phased(dt, DropSet("TEST"), 2, 2) /\ Phased(ins, InSet, 3, 3)
      /\ Phased(outs, OutSet, 4, 4) /\ Phased(y, BypassSet, 5, 5) /\ Phased(u, UpSet, 6, 6)
  BY <1>2, <1>3, <1>4, <1>5, <1>6, <1>7
<1>9. DefaultItems(r) = d \o dp \o dt \o ins \o outs \o y \o u
  BY <1>1
<1> HIDE DEF y, d, u, dp, dt, ins, outs
<1>a. /\ 1 \in 1 .. 6 /\ 2 \in 1 .. 6 /\ 3 \in 1 .. 6 /\ 4 \in 1 .. 6 /\ 5 \in 1 .. 6
      /\ 6 \in 1 .. 6 /\ 1 <= 2 /\ 2 <= 2 /\ 2 <= 3 /\ 3 <= 4 /\ 4 <= 5 /\ 5 <= 6
  OBVIOUS
<1>10. Phased(d \o dp, DownSet \cup DropSet("PHYSICAL"), 1, 2)
  BY <1>8, <1>a, Then, Zenon
<1>11. Phased(d \o dp \o dt, DownSet \cup DropSet("PHYSICAL") \cup DropSet("TEST"), 1, 2)
  BY <1>8, <1>a, <1>10, Then, Zenon
<1>12. Phased(d \o dp \o dt \o ins,
              DownSet \cup DropSet("PHYSICAL") \cup DropSet("TEST") \cup InSet, 1, 3)
  BY <1>8, <1>a, <1>11, Then, Zenon
<1>13. Phased(d \o dp \o dt \o ins \o outs,
              DownSet \cup DropSet("PHYSICAL") \cup DropSet("TEST") \cup InSet \cup OutSet,
              1, 4)
  BY <1>8, <1>a, <1>12, Then, Zenon
<1>14. Phased(d \o dp \o dt \o ins \o outs \o y,
              DownSet \cup DropSet("PHYSICAL") \cup DropSet("TEST") \cup InSet \cup OutSet
                \cup BypassSet, 1, 5)
  BY <1>8, <1>a, <1>13, Then, Zenon
<1>15. Phased(d \o dp \o dt \o ins \o outs \o y \o u,
              DownSet \cup DropSet("PHYSICAL") \cup DropSet("TEST") \cup InSet \cup OutSet
                \cup BypassSet \cup UpSet, 1, 6)
  BY <1>8, <1>a, <1>14, Then, Zenon
<1> QED
  BY <1>9, <1>15 DEF OneToOneSet

-----------------------------------------------------------------------------
(* How far a request is, and what the registers hold of it by then *)

\* What value has said at the last of the places S up to k, or else old.
Upto(S, k) == {n \in S : n <= k}
LastOf(S)  == CHOOSE n \in S : \A m \in S : m <= n
Said(S, k, value, old) == IF Upto(S, k) = {} THEN old ELSE value[LastOf(Upto(S, k))]

\* The granted items of q that write a register, and what they write there.
MuxAt(q, i, p) ==
  {n \in Granted(q) : \/ q[n].op = "ingress" /\ q[n].index = p
                      \/ q[n].op = "drop" /\ q[n].index = p /\ q[n].intf = i}
MuxValue(q, i) ==
  [n \in DOMAIN q |-> IF q[n].op = "ingress" /\ q[n].intf = i THEN q[n].to ELSE "DROP"]
\* The granted items of q that select an interface for port p.
SelectorsOf(q, p) == {n \in Granted(q) : q[n].op = "ingress" /\ q[n].index = p}

\* What an item that selects an interface writes to the multiplexer of interface i.
Selects(x, i) == IF x.intf = i THEN x.to ELSE "DROP"

EgressAt(q, p) == {n \in Granted(q) : q[n].op = "egress" /\ q[n].index = p}
BypassAt(q)    == {n \in Granted(q) : q[n].op = "bypass"}
FeatureAt(q, p, f) ==
  {n \in Granted(q) : q[n].op = "feature" /\ q[n].index = p /\ q[n].what = f}
ToOf(q)        == [n \in DOMAIN q |-> q[n].to]
OnOff(f, set)  == IF f \in set THEN "on" ELSE "off"

\* rest is the end of the list q, of responses that have not failed.
Place(q, rest, bad) ==
  LET past == Len(q) - Len(rest) IN
  /\ IsList(rest)
  /\ Len(rest) <= Len(q)
  /\ \A m \in 1 .. Len(rest) : rest[m] = q[past + m] /\ rest[m].unit \notin bad
  /\ \A n \in 1 .. past : ~Acceptable(q[n]) => q[n].unit \in bad
  /\ bad # {} => \E n \in 1 .. past : ~Acceptable(q[n])

InPlace(w) == Place(Items(request[w]), todo[w], failed[w])

\* How many items of its request writer w is done with.
Past(w) == Len(Items(request[w])) - Len(todo[w])

\* The physical multiplexer is written before an item is done.
MuxPast(w, i) ==
  IF i = "PHYSICAL" /\ half[w] /\ Item(w).op = "ingress" THEN Past(w) + 1 ELSE Past(w)

\* Every register holds what the last item that was done wrote there, or what the
\* request found.
MuxInEffect(w) ==
  LET q == Items(request[w]) IN
  \A i \in Interface, p \in Port :
    mux[i][p] = Said(MuxAt(q, i, p), MuxPast(w, i), MuxValue(q, i), before[w][1][i][p])

EgressInEffect(w) ==
  LET q == Items(request[w]) IN
  \A p \in Port : egress[p] = Said(EgressAt(q, p), Past(w), ToOf(q), before[w][2][p])

BypassInEffect(w) ==
  LET q == Items(request[w]) IN
  bypass = Said(BypassAt(q), Past(w), ToOf(q), before[w][3])

PortsInEffect(w) ==
  LET q == Items(request[w]) IN
  \A p \in Port, f \in Feature :
    OnOff(f, port[p]) = Said(FeatureAt(q, p, f), Past(w), ToOf(q),
                             OnOff(f, before[w][4][p]))

\* Between the halves of an egress item nobody else has written the register.
CopyFits(w) == half[w] /\ Item(w).op = "egress" => copy[w] = egress

InEffect(w) ==
  /\ MuxInEffect(w) /\ EgressInEffect(w) /\ BypassInEffect(w) /\ PortsInEffect(w)
  /\ CopyFits(w)

EffectInv ==
  /\ TypeOK /\ TurnsTaken
  /\ port \in [Port -> SUBSET Feature]
  /\ DOMAIN failed = Writer /\ DOMAIN before = Writer
  /\ \A w \in Writer : Busy(w) => InPlace(w) /\ InEffect(w)
  /\ \A w \in Writer : ~Busy(w) => failed[w] = {}

-----------------------------------------------------------------------------
(* What the items of every request have in common *)

\* A switch configuration is answered as one unit.
LEMMA SwitchGrouped ==
  ASSUME NEW q, \A n \in 1 .. Len(q) : q[n].unit = 0
  PROVE  Grouped(q)
  BY DEF Grouped

\* A request that is refused as a whole has one item, its refusal.
LEMMA RefusedListed ==
  ASSUME NEW u
  PROVE  LET q == <<Refused(u)>>
         IN  IsList(q) /\ Grouped(q) /\ Len(q) = 1 /\ q[1].op = "refused" /\ q[1].unit = u
<1> DEFINE q == <<Refused(u)>>
<1>1. Len(q) = 1 /\ q[1] = Refused(u)
  OBVIOUS
<1>2. q \in Seq({Refused(u)})
  OBVIOUS
<1> HIDE DEF q
<1>3. q[1].op = "refused" /\ q[1].unit = u
  BY <1>1 DEF Refused
<1>4. IsList(q)
  BY <1>2, SeqIsList
<1>5. 1 .. Len(q) = {1}
  BY <1>1
<1>6. Grouped(q)
  BY <1>5 DEF Grouped
<1> QED
  BY <1>1, <1>3, <1>4, <1>6 DEF q

\* The items of set_defaults_one_to_one are accepted, and of one response.
LEMMA OneToOneItem ==
  ASSUME NEW x \in OneToOneSet
  PROVE  /\ x.unit = 0 /\ Acceptable(x) /\ x.op # "refused"
         /\ x.op = "feature" => x.what \in Feature
         /\ x.op = "ingress" => x.intf = "PHYSICAL" /\ x.to = App
         /\ x.op = "egress" => x.to = "PHYSICAL"
         /\ x.op = "bypass" => x.to = "STRAIGHT"
         /\ x.op = "feature" => x.to = "off" \/ (x.to = "on" /\ x.what \in {"fec", "enabled"})
         /\ x.op = "feature" /\ x.what = "loopback" => x.to = "off"
         /\ x.op = "feature" /\ x.what = "fec" => x.to = "on"
         /\ x.op = "feature" => x.what # "limited"
         /\ x.op = "feature" => Phase(x) = IF x.to = "off" THEN 1 ELSE 6
<1> DEFINE Holds == /\ x.unit = 0 /\ Acceptable(x) /\ x.op # "refused"
                    /\ x.op = "feature" => x.what \in Feature
                    /\ x.op = "ingress" => x.intf = "PHYSICAL" /\ x.to = App
                    /\ x.op = "egress" => x.to = "PHYSICAL"
                    /\ x.op = "bypass" => x.to = "STRAIGHT"
                    /\ x.op = "feature" =>
                         x.to = "off" \/ (x.to = "on" /\ x.what \in {"fec", "enabled"})
                    /\ x.op = "feature" /\ x.what = "loopback" => x.to = "off"
                    /\ x.op = "feature" /\ x.what = "fec" => x.to = "on"
                    /\ x.op = "feature" => x.what # "limited"
                    /\ x.op = "feature" => Phase(x) = IF x.to = "off" THEN 1 ELSE 6
<1>1. ASSUME NEW p \in Port, NEW what \in {"loopback", "enabled"}, x = Feat(0, p, what, "off")
      PROVE  Holds
  BY <1>1 DEF Feat, Acceptable, Feature, Phase
<1>2. ASSUME NEW p \in Port, NEW what \in {"fec", "enabled"}, x = Feat(0, p, what, "on")
      PROVE  Holds
  BY <1>2 DEF Feat, Acceptable, Feature, Phase
<1>3. ASSUME NEW p \in Port, NEW intf \in Interface, x = Drop(intf, p) PROVE Holds
  BY <1>3 DEF Drop, Acceptable
<1>4. ASSUME NEW p \in Port, x = Ingress(p, "PHYSICAL", App) PROVE Holds
  BY <1>4, CardConfigAssumption DEF Ingress, Acceptable, Interface, Destination
<1>5. ASSUME NEW p \in Port, x = Egress(p, "PHYSICAL") PROVE Holds
  BY <1>5 DEF Egress, Acceptable, Interface
<1>6. ASSUME x = Bypass("STRAIGHT") PROVE Holds
  BY <1>6 DEF Bypass, Acceptable, Mode
<1>7. /\ "PHYSICAL" \in Interface /\ "TEST" \in Interface
  BY DEF Interface
<1> HIDE DEF Holds
<1>8. ASSUME x \in DownSet PROVE Holds
  BY <1>1, <1>8 DEF DownSet
<1>9. ASSUME x \in UpSet PROVE Holds
  BY <1>2, <1>9 DEF UpSet
<1>10. ASSUME NEW intf \in Interface, x \in DropSet(intf) PROVE Holds
  BY <1>3, <1>10 DEF DropSet
<1>11. ASSUME x \in InSet PROVE Holds
  BY <1>4, <1>11 DEF InSet
<1>12. ASSUME x \in OutSet PROVE Holds
  BY <1>5, <1>12 DEF OutSet
<1>13. ASSUME x \in BypassSet PROVE Holds
  BY <1>6, <1>13 DEF BypassSet
<1>14. Holds
  BY <1>7, <1>8, <1>9, <1>10, <1>11, <1>12, <1>13 DEF OneToOneSet
<1> QED
  BY <1>14 DEF Holds

\* Is a request for the defaults of a card one to one?
OneToOne(r) == r.kind = "defaults" /\ r.profile = "one_to_one"

\* Of every request: the items are a list, each unit's items stand together, and only
\* one-to-one defaults, whose items come in phases, drop what a port selects.
LEMMA ItemsFacts ==
  ASSUME NEW r \in Request
  PROVE  LET q == Items(r)
         IN  /\ IsList(q) /\ Grouped(q)
             /\ \A n \in 1 .. Len(q) : q[n].op = "feature" => q[n].what \in Feature
             /\ ~OneToOne(r) => \A n \in 1 .. Len(q) : q[n].op # "drop"
             /\ OneToOne(r) => Phased(q, OneToOneSet, 1, 6)
             /\ r.kind = "defaults" /\ ~OneToOne(r) =>
                  Len(q) = 1 /\ q[1].op = "refused"
<1> DEFINE q == Items(r)
<1>1. CASE r.kind = "switch"
  <2>1. q = SwitchItems(r) /\ ~OneToOne(r)
    BY <1>1 DEF Items, OneToOne
  <2>2. IsList(r.ingress) /\ IsList(r.egress)
    BY <1>1, CardConfigAssumption
  <2>3. /\ IsList(q)
        /\ \A n \in 1 .. Len(q) : q[n].unit = 0 /\ q[n].op \in {"ingress", "egress", "bypass"}
    BY <2>1, <2>2, SwitchListed
  <2> HIDE DEF q
  <2>4. Grouped(q)
    BY <2>3, SwitchGrouped
  <2> QED
    BY <1>1, <2>1, <2>3, <2>4 DEF q
<1>2. CASE r.kind = "port"
  <2>1. q = PortItems(r) /\ ~OneToOne(r)
    BY <1>2 DEF Items, OneToOne
  <2>2. r.port \in Int
    BY <1>2, CardConfigAssumption
  <2>3. /\ IsList(q) /\ Grouped(q)
        /\ \A n \in 1 .. Len(q) :
             q[n].op = "refused" \/ (q[n].op = "feature" /\ q[n].what \in Feature)
    BY <2>1, <2>2, PortListed
  <2> HIDE DEF q
  <2> QED
    BY <1>2, <2>1, <2>3 DEF q
<1>3. CASE r.kind = "defaults"
  <2>1. q = DefaultItems(r)
    BY <1>3 DEF Items
  <2>2. CASE r.profile = "one_to_one"
    <3>1. Phased(q, OneToOneSet, 1, 6)
      BY <2>1, <2>2, OneToOneItems
    <3> HIDE DEF q
    <3>2. IsList(q) /\ \A n \in 1 .. Len(q) : q[n] \in OneToOneSet
      BY <3>1, SeqIsList DEF Phased
    <3>3. /\ \A n \in 1 .. Len(q) : q[n].unit = 0
          /\ \A n \in 1 .. Len(q) : q[n].op = "feature" => q[n].what \in Feature
      BY <3>2, OneToOneItem
    <3>4. Grouped(q)
      BY <3>3, SwitchGrouped
    <3>5. OneToOne(r)
      BY <1>3, <2>2 DEF OneToOne
    <3> QED
      BY <3>1, <3>2, <3>3, <3>4, <3>5 DEF q
  <2>3. CASE r.profile # "one_to_one"
    <3>1. q = <<Refused(0)>>
      BY <2>1, <2>3 DEF DefaultItems
    <3> HIDE DEF q
    <3>2. IsList(q) /\ Grouped(q) /\ Len(q) = 1 /\ q[1].op = "refused"
      BY <3>1, RefusedListed
    <3>3. \A n \in 1 .. Len(q) : q[n].op = "refused"
      BY <3>2
    <3>4. ~OneToOne(r)
      BY <2>3 DEF OneToOne
    <3> QED
      BY <3>2, <3>3, <3>4 DEF q
  <2> QED
    BY <2>2, <2>3
<1> QED
  BY <1>1, <1>2, <1>3, CardConfigAssumption

-----------------------------------------------------------------------------
(* What is said up to the next place *)

\* A set of numbers with a bound has a last one.
LEMMA Greatest ==
  ASSUME NEW k \in Nat, NEW T, T \subseteq 0 .. k, T # {}
  PROVE  LastOf(T) \in T /\ \A m \in T : m <= LastOf(T)
<1> DEFINE R == {k - t : t \in T}
<1>1. R \subseteq Nat /\ R # {}
  <2>1. \A t \in T : k - t \in Nat
    OBVIOUS
  <2>2. R \subseteq Nat
    BY <2>1
  <2>3. PICK t \in T : TRUE
    OBVIOUS
  <2>4. k - t \in R
    OBVIOUS
  <2> HIDE DEF R
  <2> QED
    BY <2>2, <2>4
<1>2. PICK x \in R : \A y \in R : x <= y
  <2> HIDE DEF R
  <2> QED
    BY <1>1, Least
<1>3. PICK t \in T : x = k - t
  BY <1>2
<1>4. ASSUME NEW m \in T PROVE m <= t
  <2>1. k - m \in R
    OBVIOUS
  <2>2. k - t <= k - m
    BY <1>2, <1>3, <2>1
  <2>3. m \in Int /\ t \in Int
    OBVIOUS
  <2> QED
    BY <2>2, <2>3
<1>5. \E n \in T : \A m \in T : m <= n
  BY <1>4
<1> QED
  BY <1>5 DEF LastOf

\* What one more place says.
LEMMA SaidNext ==
  ASSUME NEW k \in Int, NEW S, S \subseteq Int, NEW value, NEW old
  PROVE  Said(S, k + 1, value, old) =
           IF k + 1 \in S THEN value[k + 1] ELSE Said(S, k, value, old)
<1>1. CASE k + 1 \in S
  <2>1. k + 1 \in Upto(S, k + 1) /\ \A m \in Upto(S, k + 1) : m <= k + 1
    BY <1>1 DEF Upto
  <2>2. \A n \in Upto(S, k + 1) :
          (\A m \in Upto(S, k + 1) : m <= n) => n = k + 1
    <3>1. Upto(S, k + 1) \subseteq Int
      BY DEF Upto
    <3> QED
      BY <2>1, <3>1
  <2>3. LastOf(Upto(S, k + 1)) = k + 1
    BY <2>1, <2>2 DEF LastOf
  <2> QED
    BY <1>1, <2>1, <2>3 DEF Said
<1>2. CASE k + 1 \notin S
  <2>1. \A n \in S : n <= k \/ n > k + 1
    BY <1>2
  <2>2. \A n \in S : n <= k + 1 <=> n <= k
    BY <2>1
  <2>3. Upto(S, k + 1) = Upto(S, k)
    BY <2>2 DEF Upto
  <2> QED
    BY <1>2, <2>3 DEF Said
<1> QED
  BY <1>1, <1>2

\* What the places say before the first one.
LEMMA SaidNone ==
  ASSUME NEW N, NEW S, S \subseteq 1 .. N, NEW value, NEW old
  PROVE  Said(S, 0, value, old) = old
<1>1. Upto(S, 0) = {}
  <2>1. \A n \in S : ~(n <= 0)
    OBVIOUS
  <2> QED
    BY <2>1 DEF Upto
<1> QED
  BY <1>1 DEF Said

\* The last place of all.
LEMMA SaidAll ==
  ASSUME NEW N, NEW S, N \in Nat, S \subseteq 1 .. N
  PROVE  /\ Upto(S, N) = S
         /\ S # {} => LastOf(S) \in S /\ \A m \in S : m <= LastOf(S)
<1>1. Upto(S, N) = S
  <2>1. \A n \in S : n <= N
    OBVIOUS
  <2> QED
    BY <2>1 DEF Upto
<1>2. S \subseteq 0 .. N
  OBVIOUS
<1> QED
  BY <1>1, <1>2, Greatest

\* What is said up to k, if anything is.
LEMMA SaidLast ==
  ASSUME NEW k \in Nat, NEW S, S \subseteq Nat, NEW value, NEW old, NEW n \in S, n <= k
  PROVE  \E l \in S : n <= l /\ l <= k /\ Said(S, k, value, old) = value[l]
<1>1. n \in Upto(S, k) /\ Upto(S, k) \subseteq 0 .. k
  <2>1. \A m \in Upto(S, k) : m \in Nat /\ m <= k
    BY DEF Upto
  <2>2. \A m \in Upto(S, k) : m \in 0 .. k
    BY <2>1
  <2> QED
    BY <2>2 DEF Upto
<1>2. LastOf(Upto(S, k)) \in Upto(S, k) /\ n <= LastOf(Upto(S, k))
  BY <1>1, Greatest
<1> QED
  BY <1>1, <1>2 DEF Said, Upto

-----------------------------------------------------------------------------
(* Where a request is, as its items are done or refused *)

\* The places of a list.
LEMMA ListDomain ==
  ASSUME NEW q, IsList(q)
  PROVE  Len(q) \in Nat /\ DOMAIN q = 1 .. Len(q) /\ Granted(q) \subseteq 1 .. Len(q)
<1>1. Len(q) \in Nat /\ DOMAIN q = 1 .. Len(q)
  BY DEF IsList
<1> QED
  BY <1>1 DEF Granted

\* A request that begins has all its items before it.
LEMMA PlaceStart ==
  ASSUME NEW q, IsList(q)
  PROVE  Place(q, q, {}) /\ Len(q) - Len(q) = 0
<1>1. Len(q) \in Nat
  BY DEF IsList
<1>2. Len(q) - Len(q) = 0 /\ Len(q) <= Len(q) /\ 1 .. 0 = {}
  BY <1>1
<1>3. \A m \in 1 .. Len(q) : 0 + m = m
  OBVIOUS
<1> QED
  BY <1>2, <1>3 DEF Place

\* One granted item is done.
LEMMA PlaceDone ==
  ASSUME NEW q, IsList(q), NEW rest, NEW bad, Place(q, rest, bad), rest # <<>>,
         Acceptable(Head(rest))
  PROVE  LET k == Len(q) - Len(rest)
         IN  /\ Place(q, Tail(rest), bad)
             /\ Len(q) - Len(Tail(rest)) = k + 1
             /\ k \in Nat /\ k + 1 \in Granted(q) /\ q[k + 1] = Head(rest)
<1> DEFINE k == Len(q) - Len(rest)
           t == Tail(rest)
<1>1. /\ IsList(rest) /\ Len(rest) <= Len(q)
      /\ \A m \in 1 .. Len(rest) : rest[m] = q[k + m] /\ rest[m].unit \notin bad
      /\ \A n \in 1 .. k : ~Acceptable(q[n]) => q[n].unit \in bad
      /\ bad # {} => \E n \in 1 .. k : ~Acceptable(q[n])
  BY DEF Place
<1>2. /\ Len(rest) \in Nat /\ Len(rest) > 0 /\ Head(rest) = rest[1]
      /\ IsList(t) /\ Len(t) = Len(rest) - 1
      /\ \A m \in 1 .. Len(rest) - 1 : t[m] = rest[m + 1]
  BY <1>1, ListTail
<1>3. Len(q) \in Nat /\ DOMAIN q = 1 .. Len(q)
  BY ListDomain
<1>k. k = Len(q) - Len(rest)
  OBVIOUS
<1> HIDE DEF k, t
<1>4. k \in Nat /\ k + 1 \in 1 .. Len(q) /\ 1 \in 1 .. Len(rest)
      /\ Len(q) - Len(t) = k + 1 /\ Len(t) <= Len(q)
  BY <1>1, <1>2, <1>3, <1>k
<1>5. q[k + 1] = Head(rest)
  BY <1>1, <1>2, <1>4
<1>6. \A n \in 1 .. k + 1 : n \in 1 .. k \/ n = k + 1
  BY <1>4
<1>7. \A n \in 1 .. k + 1 : ~Acceptable(q[n]) => q[n].unit \in bad
  BY <1>1, <1>5, <1>6
<1>8. q[k + 1].unit \notin bad
  BY <1>1, <1>4
<1>9. k + 1 \in Granted(q)
  BY <1>3, <1>4, <1>7, <1>8 DEF Granted
<1>10. \A m \in 1 .. Len(t) :
         m + 1 \in 1 .. Len(rest) /\ m \in 1 .. Len(rest) - 1 /\ k + (m + 1) = (k + 1) + m
  BY <1>2, <1>4
<1>11. \A m \in 1 .. Len(t) : t[m] = q[(k + 1) + m] /\ t[m].unit \notin bad
  BY <1>1, <1>2, <1>10
<1>12. \A n \in 1 .. k : n \in 1 .. k + 1
  BY <1>4
<1>13. bad # {} => \E n \in 1 .. k + 1 : ~Acceptable(q[n])
  BY <1>1, <1>12
<1>14. Place(q, t, bad)
  BY <1>2, <1>4, <1>7, <1>11, <1>13 DEF Place
<1> QED
  BY <1>4, <1>5, <1>9, <1>14 DEF k, t

\* An item that is refused takes the rest of its unit with it.
LEMMA PlaceRefused ==
  ASSUME NEW q, IsList(q), Grouped(q), NEW rest, NEW bad, Place(q, rest, bad),
         rest # <<>>, ~Acceptable(Head(rest)),
         NEW n \in 1 .. Len(rest), \A m \in 1 .. n : rest[m].unit = Head(rest).unit,
         n < Len(rest) => rest[n + 1].unit # Head(rest).unit
  PROVE  LET k == Len(q) - Len(rest)
             t == SubSeq(rest, n + 1, Len(rest))
         IN  /\ Place(q, t, bad \cup {Head(rest).unit})
             /\ k \in Nat /\ Len(q) - Len(t) = k + n
             /\ \A m \in (k + 1) .. (k + n) : m \notin Granted(q)
<1> DEFINE k == Len(q) - Len(rest)
           t == SubSeq(rest, n + 1, Len(rest))
           u == Head(rest).unit
           worse == bad \cup {u}
<1>1. /\ IsList(rest) /\ Len(rest) <= Len(q)
      /\ \A m \in 1 .. Len(rest) : rest[m] = q[k + m] /\ rest[m].unit \notin bad
      /\ \A a \in 1 .. k : ~Acceptable(q[a]) => q[a].unit \in bad
  BY DEF Place
<1>2. Len(rest) \in Nat /\ Len(rest) > 0 /\ Head(rest) = rest[1]
  BY <1>1, ListTail
<1>3. Len(q) \in Nat /\ DOMAIN q = 1 .. Len(q)
  BY ListDomain
<1>4. IsList(t) /\ Len(t) = Len(rest) - n /\ \A m \in 1 .. Len(rest) - n : t[m] = rest[n + m]
  BY <1>1, ListRest
<1>k. k = Len(q) - Len(rest) /\ u = Head(rest).unit
  OBVIOUS
<1> HIDE DEF k, t, u
<1>5. k \in Nat /\ n \in Nat /\ k + 1 \in 1 .. Len(q) /\ 1 \in 1 .. Len(rest)
      /\ Len(q) - Len(t) = k + n /\ Len(t) <= Len(q) /\ k + 1 \in 1 .. k + n
  BY <1>1, <1>2, <1>3, <1>4, <1>k
<1>6. q[k + 1] = Head(rest) /\ q[k + 1].unit = u
  BY <1>1, <1>2, <1>5, <1>k
<1>7. ASSUME NEW m \in (k + 1) .. (k + n) PROVE q[m].unit = u /\ m \in 1 .. Len(q)
  <2>1. m - k \in 1 .. n /\ k + (m - k) = m /\ m - k \in 1 .. Len(rest) /\ m \in 1 .. Len(q)
    BY <1>2, <1>3, <1>5, <1>k
  <2>2. rest[m - k] = q[m]
    BY <1>1, <2>1
  <2>3. rest[m - k].unit = u
    BY <1>k, <2>1
  <2> QED
    BY <2>1, <2>2, <2>3
<1>8. ASSUME NEW m \in (k + 1) .. (k + n) PROVE m \notin Granted(q)
  <2>1. k + 1 \in 1 .. m
    BY <1>5
  <2>2. q[k + 1].unit = q[m].unit /\ ~Acceptable(q[k + 1])
    BY <1>6, <1>7
  <2> QED
    BY <2>1, <2>2 DEF Granted
<1>9. \A a \in 1 .. k + n : a \in 1 .. k \/ a \in (k + 1) .. (k + n)
  BY <1>5
<1>10. \A a \in 1 .. k + n : ~Acceptable(q[a]) => q[a].unit \in worse
  BY <1>1, <1>7, <1>9
<1>11. \E a \in 1 .. k + n : ~Acceptable(q[a])
  BY <1>5, <1>6
<1>12. ASSUME NEW m \in 1 .. Len(t)
       PROVE  t[m] = q[(k + n) + m] /\ t[m].unit \notin worse
  <2>1. /\ n + m \in 1 .. Len(rest) /\ m \in 1 .. Len(rest) - n
        /\ k + (n + m) = (k + n) + m /\ (k + n) + m \in 1 .. Len(q)
        /\ n < Len(rest) /\ n + 1 \in 1 .. Len(rest)
        /\ k + (n + 1) \in 1 .. Len(q) /\ k + 1 <= k + (n + 1)
        /\ k + (n + 1) <= (k + n) + m
    BY <1>2, <1>3, <1>4, <1>5, <1>k
  <2>2. t[m] = q[(k + n) + m] /\ t[m].unit \notin bad
    BY <1>1, <1>4, <2>1
  <2>3. rest[n + 1] = q[k + (n + 1)]
    BY <1>1, <2>1
  <2>4. q[k + (n + 1)].unit # u
    BY <1>k, <2>1, <2>3
  <2>5. q[(k + n) + m].unit # u
    <3>1. q[(k + n) + m].unit = q[k + 1].unit => q[k + (n + 1)].unit = q[k + 1].unit
      BY <1>5, <2>1 DEF Grouped
    <3> QED
      BY <1>6, <2>4, <3>1
  <2> QED
    BY <2>2, <2>5
<1> HIDE DEF worse
<1>13. Place(q, t, worse)
  BY <1>4, <1>5, <1>10, <1>11, <1>12 DEF Place
<1> QED
  BY <1>5, <1>8, <1>13 DEF k, t, u, worse

\* No item is left.
LEMMA PlaceEnd ==
  ASSUME NEW q, IsList(q), NEW bad, Place(q, <<>>, bad)
  PROVE  /\ Len(q) - Len(<<>>) = Len(q)
         /\ bad # {} => \E n \in 1 .. Len(q) : ~Acceptable(q[n])
         /\ \A n \in 1 .. Len(q) : ~Acceptable(q[n]) => q[n].unit \in bad
<1>1. Len(q) \in Nat
  BY DEF IsList
<1>2. Len(<<>>) = 0
  OBVIOUS
<1>3. Len(q) - Len(<<>>) = Len(q)
  BY <1>1, <1>2
<1> QED
  BY <1>3 DEF Place

-----------------------------------------------------------------------------
(* What is said of the registers, one item on *)

\* The places that write a register are places of the list.
LEMMA PlacesGranted ==
  ASSUME NEW q, IsList(q)
  PROVE  /\ \A i, p : MuxAt(q, i, p) \subseteq 1 .. Len(q)
         /\ \A p : EgressAt(q, p) \subseteq 1 .. Len(q)
         /\ BypassAt(q) \subseteq 1 .. Len(q)
         /\ \A p, f : FeatureAt(q, p, f) \subseteq 1 .. Len(q)
  BY ListDomain DEF MuxAt, EgressAt, BypassAt, FeatureAt

\* What the next item says of each register.
LEMMA OneOn ==
  ASSUME NEW q, IsList(q), NEW k \in Nat, k + 1 \in Granted(q)
  PROVE  LET x == q[k + 1] IN
         /\ \A i, p, old :
              Said(MuxAt(q, i, p), k + 1, MuxValue(q, i), old) =
                IF \/ x.op = "ingress" /\ x.index = p
                   \/ x.op = "drop" /\ x.index = p /\ x.intf = i
                THEN IF x.op = "ingress" /\ x.intf = i THEN x.to ELSE "DROP"
                ELSE Said(MuxAt(q, i, p), k, MuxValue(q, i), old)
         /\ \A p, old :
              Said(EgressAt(q, p), k + 1, ToOf(q), old) =
                IF x.op = "egress" /\ x.index = p THEN x.to
                ELSE Said(EgressAt(q, p), k, ToOf(q), old)
         /\ \A old :
              Said(BypassAt(q), k + 1, ToOf(q), old) =
                IF x.op = "bypass" THEN x.to ELSE Said(BypassAt(q), k, ToOf(q), old)
         /\ \A p, f, old :
              Said(FeatureAt(q, p, f), k + 1, ToOf(q), old) =
                IF x.op = "feature" /\ x.index = p /\ x.what = f THEN x.to
                ELSE Said(FeatureAt(q, p, f), k, ToOf(q), old)
<1>1. k \in Int /\ 1 .. Len(q) \subseteq Int
  OBVIOUS
<1>2. /\ \A i, p : MuxAt(q, i, p) \subseteq Int
      /\ \A p : EgressAt(q, p) \subseteq Int
      /\ BypassAt(q) \subseteq Int
      /\ \A p, f : FeatureAt(q, p, f) \subseteq Int
  BY <1>1, PlacesGranted
<1>3. k + 1 \in DOMAIN q
  BY DEF Granted
<1>4. /\ ToOf(q)[k + 1] = q[k + 1].to
      /\ \A i : MuxValue(q, i)[k + 1] =
                  IF q[k + 1].op = "ingress" /\ q[k + 1].intf = i THEN q[k + 1].to
                  ELSE "DROP"
  BY <1>3 DEF ToOf, MuxValue
<1>5. ASSUME NEW i, NEW p, NEW old
      PROVE  Said(MuxAt(q, i, p), k + 1, MuxValue(q, i), old) =
               IF k + 1 \in MuxAt(q, i, p) THEN MuxValue(q, i)[k + 1]
               ELSE Said(MuxAt(q, i, p), k, MuxValue(q, i), old)
  BY <1>1, <1>2, SaidNext
<1>6. ASSUME NEW p, NEW old
      PROVE  Said(EgressAt(q, p), k + 1, ToOf(q), old) =
               IF k + 1 \in EgressAt(q, p) THEN ToOf(q)[k + 1]
               ELSE Said(EgressAt(q, p), k, ToOf(q), old)
  BY <1>1, <1>2, SaidNext
<1>7. ASSUME NEW old
      PROVE  Said(BypassAt(q), k + 1, ToOf(q), old) =
               IF k + 1 \in BypassAt(q) THEN ToOf(q)[k + 1]
               ELSE Said(BypassAt(q), k, ToOf(q), old)
  BY <1>1, <1>2, SaidNext
<1>8. ASSUME NEW p, NEW f, NEW old
      PROVE  Said(FeatureAt(q, p, f), k + 1, ToOf(q), old) =
               IF k + 1 \in FeatureAt(q, p, f) THEN ToOf(q)[k + 1]
               ELSE Said(FeatureAt(q, p, f), k, ToOf(q), old)
  BY <1>1, <1>2, SaidNext
<1>9. \A i, p : k + 1 \in MuxAt(q, i, p) <=>
        \/ q[k + 1].op = "ingress" /\ q[k + 1].index = p
        \/ q[k + 1].op = "drop" /\ q[k + 1].index = p /\ q[k + 1].intf = i
  BY DEF MuxAt
<1>10. \A p : k + 1 \in EgressAt(q, p) <=> q[k + 1].op = "egress" /\ q[k + 1].index = p
  BY DEF EgressAt
<1>11. k + 1 \in BypassAt(q) <=> q[k + 1].op = "bypass"
  BY DEF BypassAt
<1>12. \A p, f : k + 1 \in FeatureAt(q, p, f) <=>
         q[k + 1].op = "feature" /\ q[k + 1].index = p /\ q[k + 1].what = f
  BY DEF FeatureAt
<1>13. \A i, p, old :
         Said(MuxAt(q, i, p), k + 1, MuxValue(q, i), old) =
           IF \/ q[k + 1].op = "ingress" /\ q[k + 1].index = p
              \/ q[k + 1].op = "drop" /\ q[k + 1].index = p /\ q[k + 1].intf = i
           THEN IF q[k + 1].op = "ingress" /\ q[k + 1].intf = i THEN q[k + 1].to ELSE "DROP"
           ELSE Said(MuxAt(q, i, p), k, MuxValue(q, i), old)
  BY <1>4, <1>5, <1>9
<1>14. \A p, old :
         Said(EgressAt(q, p), k + 1, ToOf(q), old) =
           IF q[k + 1].op = "egress" /\ q[k + 1].index = p THEN q[k + 1].to
           ELSE Said(EgressAt(q, p), k, ToOf(q), old)
  BY <1>4, <1>6, <1>10
<1>15. \A old :
         Said(BypassAt(q), k + 1, ToOf(q), old) =
           IF q[k + 1].op = "bypass" THEN q[k + 1].to
           ELSE Said(BypassAt(q), k, ToOf(q), old)
  BY <1>4, <1>7, <1>11
<1>16. \A p, f, old :
         Said(FeatureAt(q, p, f), k + 1, ToOf(q), old) =
           IF q[k + 1].op = "feature" /\ q[k + 1].index = p /\ q[k + 1].what = f
           THEN q[k + 1].to
           ELSE Said(FeatureAt(q, p, f), k, ToOf(q), old)
  BY <1>4, <1>8, <1>12
<1> QED
  BY <1>13, <1>14, <1>15, <1>16

\* Items that are not granted say nothing.
LEMMA NotSaid ==
  ASSUME NEW q, IsList(q), NEW k \in Nat, NEW n \in Nat,
         \A m \in (k + 1) .. (k + n) : m \notin Granted(q),
         NEW S, S \subseteq Granted(q), NEW value, NEW old
  PROVE  Said(S, k + n, value, old) = Said(S, k, value, old)
<1>1. S \subseteq Int
  BY ListDomain
<1>2. \A m \in S : m <= k + n <=> m <= k
  BY <1>1
<1>3. Upto(S, k + n) = Upto(S, k)
  BY <1>2 DEF Upto
<1> QED
  BY <1>3 DEF Said

\* Only a granted item writes a register.
LEMMA SetsGranted ==
  ASSUME NEW q
  PROVE  /\ \A i, p : MuxAt(q, i, p) \subseteq Granted(q)
         /\ \A p : EgressAt(q, p) \subseteq Granted(q)
         /\ BypassAt(q) \subseteq Granted(q)
         /\ \A p, f : FeatureAt(q, p, f) \subseteq Granted(q)
  BY DEF MuxAt, EgressAt, BypassAt, FeatureAt

\* An ingress selector sets both multiplexers of its port.
LEMMA IngressOn ==
  ASSUME NEW q, IsList(q), NEW k \in Nat, k + 1 \in Granted(q),
         NEW x, q[k + 1] = x, x.op = "ingress"
  PROVE  /\ \A i, p, old : x.index # p =>
              Said(MuxAt(q, i, p), k + 1, MuxValue(q, i), old) =
                Said(MuxAt(q, i, p), k, MuxValue(q, i), old)
         /\ \A i, p, old : x.index = p =>
              Said(MuxAt(q, i, p), k + 1, MuxValue(q, i), old) = Selects(x, i)
<1>1. \A i, p, old :
        Said(MuxAt(q, i, p), k + 1, MuxValue(q, i), old) =
          IF \/ x.op = "ingress" /\ x.index = p
             \/ x.op = "drop" /\ x.index = p /\ x.intf = i
          THEN IF x.op = "ingress" /\ x.intf = i THEN x.to ELSE "DROP"
          ELSE Said(MuxAt(q, i, p), k, MuxValue(q, i), old)
  BY OneOn
<1>2. ASSUME NEW i, NEW p, NEW old, x.index # p
      PROVE  Said(MuxAt(q, i, p), k + 1, MuxValue(q, i), old) =
               Said(MuxAt(q, i, p), k, MuxValue(q, i), old)
  BY <1>1, <1>2
<1>3. ASSUME NEW i, NEW p, NEW old, x.index = p
      PROVE  Said(MuxAt(q, i, p), k + 1, MuxValue(q, i), old) = Selects(x, i)
  BY <1>1, <1>3 DEF Selects
<1> QED
  BY <1>2, <1>3

-----------------------------------------------------------------------------
(* The registers of a request under way, step by step *)

\* A busy writer serves a request, and is the only one.
LEMMA TheRequest ==
  ASSUME EffectInv, NEW w \in Writer, Busy(w)
  PROVE  /\ request[w] \in Request
         /\ IsList(Items(request[w])) /\ Grouped(Items(request[w]))
         /\ InPlace(w) /\ InEffect(w)
         /\ \A o \in Writer : o # w => ~Busy(o) /\ failed[o] = {}
<1>1. request[w] \in Request
  BY DEF EffectInv, TypeOK, Busy
<1>2. IsList(Items(request[w])) /\ Grouped(Items(request[w]))
  BY <1>1, ItemsFacts
<1>3. InPlace(w) /\ InEffect(w)
  BY DEF EffectInv
<1>4. \A o \in Writer : o # w => ~Busy(o)
  BY DEF EffectInv, TurnsTaken
<1> QED
  BY <1>1, <1>2, <1>3, <1>4 DEF EffectInv

\* What the step of writer w has to keep.
LEMMA EffectBy ==
  ASSUME EffectInv, NEW w \in Writer, TypeOK', TurnsTaken',
         port' \in [Port -> SUBSET Feature],
         DOMAIN failed' = Writer, DOMAIN before' = Writer,
         \A o \in Writer : o # w => failed'[o] = {},
         Busy(w)', InPlace(w)', InEffect(w)'
  PROVE  EffectInv'
<1>1. \A o \in Writer : Busy(o)' => o = w
  BY DEF TurnsTaken
<1>2. \A o \in Writer : Busy(o)' => InPlace(o)' /\ InEffect(o)'
  BY <1>1
<1>3. \A o \in Writer : ~Busy(o)' => failed'[o] = {}
  <2>1. \A o \in Writer : ~Busy(o)' => o # w
    OBVIOUS
  <2> QED
    BY <2>1
<1> QED
  BY <1>2, <1>3 DEF EffectInv

\* An item that is done.
LEMMA ItemDone ==
  ASSUME EffectInv, NEW w \in Writer, NEW op, NextIs(w, op), Done(w),
         UNCHANGED <<request, failed, before>>
  PROVE  LET q == Items(request[w])
             k == Past(w)
         IN  /\ IsList(q) /\ k \in Nat /\ k + 1 \in Granted(q)
             /\ q[k + 1] = Item(w) /\ q[k + 1].op = op
             /\ InPlace(w) /\ InEffect(w)
             /\ InPlace(w)' /\ Past(w)' = k + 1 /\ half'[w] = FALSE
             /\ \A i : MuxPast(w, i)' = k + 1
             /\ CopyFits(w)' /\ Busy(w)'
             /\ \A o \in Writer : o # w => failed'[o] = {}
             /\ DOMAIN failed' = Writer /\ DOMAIN before' = Writer
<1> DEFINE q == Items(request[w])
           k == Past(w)
<1>1. Busy(w) /\ todo[w] # <<>> /\ Acceptable(Item(w)) /\ Item(w).op = op
  BY DEF NextIs
<1>2. /\ IsList(q) /\ InPlace(w) /\ InEffect(w)
      /\ \A o \in Writer : o # w => failed[o] = {}
  BY <1>1, TheRequest
<1>3. todo'[w] = Tail(todo[w]) /\ half'[w] = FALSE
  BY DEF Done, EffectInv, TypeOK
<1>4. /\ Place(q, Tail(todo[w]), failed[w])
      /\ Len(q) - Len(Tail(todo[w])) = k + 1
      /\ k \in Nat /\ k + 1 \in Granted(q) /\ q[k + 1] = Item(w)
  <2>1. Place(q, todo[w], failed[w]) /\ Acceptable(Head(todo[w]))
    BY <1>1, <1>2 DEF InPlace, Item
  <2> HIDE DEF q
  <2>2. /\ Place(q, Tail(todo[w]), failed[w])
        /\ Len(q) - Len(Tail(todo[w])) = Len(q) - Len(todo[w]) + 1
        /\ Len(q) - Len(todo[w]) \in Nat /\ Len(q) - Len(todo[w]) + 1 \in Granted(q)
        /\ q[Len(q) - Len(todo[w]) + 1] = Head(todo[w])
    BY <1>1, <1>2, <2>1, PlaceDone
  <2> QED
    BY <2>2 DEF Past, q, Item
<1>5. request' = request /\ failed' = failed /\ before' = before
  OBVIOUS
<1>6. InPlace(w)' /\ Past(w)' = k + 1
  BY <1>3, <1>4, <1>5 DEF InPlace, Past
<1>7. \A i : MuxPast(w, i)' = k + 1
  BY <1>3, <1>6 DEF MuxPast
<1>8. CopyFits(w)' /\ Busy(w)'
  BY <1>1, <1>3, <1>5 DEF CopyFits, Busy
<1>9. DOMAIN failed' = Writer /\ DOMAIN before' = Writer
  BY <1>5 DEF EffectInv
<1>10. \A o \in Writer : o # w => failed'[o] = {}
  BY <1>2, <1>5
<1>11. q[k + 1].op = op
  BY <1>1, <1>4
<1> QED
  BY <1>2, <1>3, <1>4, <1>6, <1>7, <1>8, <1>9, <1>10, <1>11

\* The registers that an item is not about.
LEMMA OthersKept ==
  ASSUME EffectInv, NEW w \in Writer, NEW op, NextIs(w, op), Done(w),
         UNCHANGED <<request, failed, before>>
  PROVE  /\ op \notin {"ingress", "drop"} /\ mux' = mux => MuxInEffect(w)'
         /\ op # "egress" /\ egress' = egress => EgressInEffect(w)'
         /\ op # "bypass" /\ bypass' = bypass => BypassInEffect(w)'
         /\ op # "feature" /\ port' = port => PortsInEffect(w)'
<1> DEFINE q == Items(request[w])
           k == Past(w)
<1>1. /\ IsList(q) /\ k \in Nat /\ k + 1 \in Granted(q) /\ q[k + 1].op = op
      /\ InEffect(w) /\ Past(w)' = k + 1 /\ \A i : MuxPast(w, i)' = k + 1
  BY ItemDone
<1>2. Items(request[w])' = q /\ before' = before
  OBVIOUS
<1>3. op # "ingress" => \A i : MuxPast(w, i) = k
  BY DEF MuxPast, NextIs
<1>4. /\ op \notin {"ingress", "drop"} =>
           \A i, p, old : Said(MuxAt(q, i, p), k + 1, MuxValue(q, i), old) =
                            Said(MuxAt(q, i, p), k, MuxValue(q, i), old)
      /\ op # "egress" =>
           \A p, old : Said(EgressAt(q, p), k + 1, ToOf(q), old) =
                         Said(EgressAt(q, p), k, ToOf(q), old)
      /\ op # "bypass" =>
           \A old : Said(BypassAt(q), k + 1, ToOf(q), old) =
                      Said(BypassAt(q), k, ToOf(q), old)
      /\ op # "feature" =>
           \A p, f, old : Said(FeatureAt(q, p, f), k + 1, ToOf(q), old) =
                            Said(FeatureAt(q, p, f), k, ToOf(q), old)
  <2> HIDE DEF q, k
  <2> QED
    BY <1>1, OneOn
<1>5. ASSUME op \notin {"ingress", "drop"}, mux' = mux PROVE MuxInEffect(w)'
  <2>1. MuxInEffect(w)
    BY <1>1 DEF InEffect
  <2> QED
    BY <1>1, <1>2, <1>3, <1>4, <1>5, <2>1 DEF MuxInEffect
<1>6. ASSUME op # "egress", egress' = egress PROVE EgressInEffect(w)'
  <2>1. EgressInEffect(w)
    BY <1>1 DEF InEffect
  <2> QED
    BY <1>1, <1>2, <1>4, <1>6, <2>1 DEF EgressInEffect
<1>7. ASSUME op # "bypass", bypass' = bypass PROVE BypassInEffect(w)'
  <2>1. BypassInEffect(w)
    BY <1>1 DEF InEffect
  <2> QED
    BY <1>1, <1>2, <1>4, <1>7, <2>1 DEF BypassInEffect
<1>8. ASSUME op # "feature", port' = port PROVE PortsInEffect(w)'
  <2>1. PortsInEffect(w)
    BY <1>1 DEF InEffect
  <2> QED
    BY <1>1, <1>2, <1>4, <1>8, <2>1 DEF PortsInEffect
<1> QED
  BY <1>5, <1>6, <1>7, <1>8

\* Each step of a writer keeps EffectInv.
LEMMA EffectDrop ==
  ASSUME EffectInv, NEW w \in Writer, DropMux(w), TypeOK', TurnsTaken'
  PROVE  EffectInv'
<1> DEFINE q == Items(request[w])
           k == Past(w)
           b == before[w]
<1>1. /\ NextIs(w, "drop") /\ Done(w) /\ UNCHANGED <<request, failed, before>>
      /\ UNCHANGED <<egress, bypass, port>>
      /\ mux' = [mux EXCEPT ![Item(w).intf][Item(w).index] = "DROP"]
  BY DEF DropMux, WriteMux
<1>2. /\ IsList(q) /\ k \in Nat /\ k + 1 \in Granted(q)
      /\ q[k + 1] = Item(w) /\ q[k + 1].op = "drop"
      /\ InEffect(w)
      /\ InPlace(w)' /\ Past(w)' = k + 1 /\ half'[w] = FALSE
      /\ \A i : MuxPast(w, i)' = k + 1
      /\ CopyFits(w)' /\ Busy(w)'
      /\ \A o \in Writer : o # w => failed'[o] = {}
      /\ DOMAIN failed' = Writer /\ DOMAIN before' = Writer
  BY <1>1, ItemDone
<1>3. Items(request[w])' = q /\ before'[w] = b
  BY <1>1
<1>4. ~half[w] /\ \A i : MuxPast(w, i) = k
  BY <1>1 DEF EffectInv, TurnsTaken, NextIs, MuxPast
<1>5. MuxInEffect(w)'
  <2> SUFFICES ASSUME NEW i \in Interface, NEW p \in Port
               PROVE  mux'[i][p] = Said(MuxAt(q, i, p), k + 1, MuxValue(q, i), b[1][i][p])
    BY <1>2, <1>3 DEF MuxInEffect
  <2>1. mux[i][p] = Said(MuxAt(q, i, p), k, MuxValue(q, i), b[1][i][p])
    BY <1>2, <1>4 DEF InEffect, MuxInEffect
  <2>2. mux'[i][p] = IF i = Item(w).intf /\ p = Item(w).index THEN "DROP" ELSE mux[i][p]
    BY <1>1 DEF EffectInv, TypeOK
  <2>3. Said(MuxAt(q, i, p), k + 1, MuxValue(q, i), b[1][i][p]) =
          IF Item(w).index = p /\ Item(w).intf = i THEN "DROP"
          ELSE Said(MuxAt(q, i, p), k, MuxValue(q, i), b[1][i][p])
    <3> HIDE DEF q, k, b
    <3> QED
      BY <1>2, OneOn
  <2> QED
    BY <2>1, <2>2, <2>3
<1>6. EgressInEffect(w)' /\ BypassInEffect(w)' /\ PortsInEffect(w)'
  BY <1>1, OthersKept
<1>7. InEffect(w)'
  BY <1>2, <1>5, <1>6 DEF InEffect
<1>8. port' \in [Port -> SUBSET Feature]
  BY <1>1 DEF EffectInv
<1> QED
  BY <1>2, <1>7, <1>8, EffectBy

LEMMA EffectBypass ==
  ASSUME EffectInv, NEW w \in Writer, SetBypass(w), TypeOK', TurnsTaken'
  PROVE  EffectInv'
<1> DEFINE q == Items(request[w])
           k == Past(w)
           old == before[w][3]
<1>1. /\ NextIs(w, "bypass") /\ Done(w) /\ UNCHANGED <<request, failed, before>>
      /\ UNCHANGED <<mux, egress, port>> /\ bypass' = Item(w).to
  BY DEF SetBypass
<1>2. /\ IsList(q) /\ k \in Nat /\ k + 1 \in Granted(q)
      /\ q[k + 1] = Item(w) /\ q[k + 1].op = "bypass"
      /\ InPlace(w)' /\ Past(w)' = k + 1
      /\ CopyFits(w)' /\ Busy(w)'
      /\ \A o \in Writer : o # w => failed'[o] = {}
      /\ DOMAIN failed' = Writer /\ DOMAIN before' = Writer
  BY <1>1, ItemDone
<1>3. Items(request[w])' = q /\ before'[w] = before[w]
  BY <1>1
<1>4. MuxInEffect(w)' /\ EgressInEffect(w)' /\ PortsInEffect(w)'
  BY <1>1, OthersKept
<1>5. Said(BypassAt(q), k + 1, ToOf(q), old) = Item(w).to
  <2> HIDE DEF q, k, old
  <2> QED
    BY <1>2, OneOn
<1>6. BypassInEffect(w)'
  BY <1>1, <1>2, <1>3, <1>5 DEF BypassInEffect
<1>7. InEffect(w)'
  BY <1>2, <1>4, <1>6 DEF InEffect
<1>8. port' \in [Port -> SUBSET Feature]
  BY <1>1 DEF EffectInv
<1> QED
  BY <1>2, <1>7, <1>8, EffectBy

LEMMA EffectFeature ==
  ASSUME EffectInv, NEW w \in Writer, SetFeature(w), TypeOK', TurnsTaken'
  PROVE  EffectInv'
<1> DEFINE q == Items(request[w])
           k == Past(w)
           x == Item(w)
           b == before[w][4]
<1>1. /\ NextIs(w, "feature") /\ Done(w) /\ UNCHANGED <<request, failed, before>>
      /\ UNCHANGED <<mux, egress, bypass>>
      /\ port' = [port EXCEPT ![x.index] = IF x.to = "on" THEN @ \cup {x.what}
                                           ELSE @ \ {x.what}]
  BY DEF SetFeature
<1>2. /\ IsList(q) /\ k \in Nat /\ k + 1 \in Granted(q)
      /\ q[k + 1] = x /\ q[k + 1].op = "feature" /\ InEffect(w)
      /\ InPlace(w)' /\ Past(w)' = k + 1
      /\ CopyFits(w)' /\ Busy(w)'
      /\ \A o \in Writer : o # w => failed'[o] = {}
      /\ DOMAIN failed' = Writer /\ DOMAIN before' = Writer
  BY <1>1, ItemDone
<1>3. Items(request[w])' = q /\ before'[w] = before[w]
  BY <1>1
<1>4. MuxInEffect(w)' /\ EgressInEffect(w)' /\ BypassInEffect(w)'
  BY <1>1, OthersKept
<1>5. x.what \in Feature
  <2>1. request[w] \in Request /\ k + 1 \in 1 .. Len(q)
    BY <1>1, <1>2, TheRequest, ListDomain DEF NextIs
  <2> QED
    BY <1>2, <2>1, ItemsFacts
<1>6. x.to \in {"on", "off"}
  BY <1>1 DEF NextIs, Acceptable
<1>7. port \in [Port -> SUBSET Feature]
  BY DEF EffectInv
<1>8. port' \in [Port -> SUBSET Feature]
  <2> HIDE DEF x
  <2> QED
    BY <1>1, <1>5, <1>7
<1>9. PortsInEffect(w)'
  <2> SUFFICES ASSUME NEW p \in Port, NEW f \in Feature
               PROVE  OnOff(f, port'[p]) =
                        Said(FeatureAt(q, p, f), k + 1, ToOf(q), OnOff(f, b[p]))
    BY <1>2, <1>3 DEF PortsInEffect
  <2>1. OnOff(f, port[p]) = Said(FeatureAt(q, p, f), k, ToOf(q), OnOff(f, b[p]))
    BY <1>2 DEF InEffect, PortsInEffect
  <2>2. OnOff(f, port'[p]) = IF x.index = p /\ x.what = f THEN x.to ELSE OnOff(f, port[p])
    <3> HIDE DEF x
    <3>1. port'[p] = IF x.index = p
                     THEN IF x.to = "on" THEN port[p] \cup {x.what} ELSE port[p] \ {x.what}
                     ELSE port[p]
      BY <1>1, <1>7
    <3> QED
      BY <1>6, <3>1 DEF OnOff
  <2>3. Said(FeatureAt(q, p, f), k + 1, ToOf(q), OnOff(f, b[p])) =
          IF x.index = p /\ x.what = f THEN x.to
          ELSE Said(FeatureAt(q, p, f), k, ToOf(q), OnOff(f, b[p]))
    <3> HIDE DEF q, k, b, x
    <3> QED
      BY <1>2, OneOn
  <2> QED
    BY <2>1, <2>2, <2>3
<1>10. InEffect(w)'
  BY <1>2, <1>4, <1>9 DEF InEffect
<1> QED
  BY <1>2, <1>8, <1>10, EffectBy

LEMMA EffectStore ==
  ASSUME EffectInv, NEW w \in Writer, StoreEgress(w), TypeOK', TurnsTaken'
  PROVE  EffectInv'
<1> DEFINE q == Items(request[w])
           k == Past(w)
           x == Item(w)
           b == before[w][2]
<1>1. /\ NextIs(w, "egress") /\ Done(w) /\ UNCHANGED <<request, failed, before>>
      /\ UNCHANGED <<mux, bypass, port>>
      /\ half[w] /\ egress' = [copy[w] EXCEPT ![x.index] = x.to]
  BY DEF StoreEgress
<1>2. /\ IsList(q) /\ k \in Nat /\ k + 1 \in Granted(q)
      /\ q[k + 1] = x /\ q[k + 1].op = "egress" /\ InEffect(w)
      /\ InPlace(w)' /\ Past(w)' = k + 1
      /\ CopyFits(w)' /\ Busy(w)'
      /\ \A o \in Writer : o # w => failed'[o] = {}
      /\ DOMAIN failed' = Writer /\ DOMAIN before' = Writer
  BY <1>1, ItemDone
<1>3. Items(request[w])' = q /\ before'[w] = before[w]
  BY <1>1
<1>4. MuxInEffect(w)' /\ BypassInEffect(w)' /\ PortsInEffect(w)'
  BY <1>1, OthersKept
<1>5. copy[w] = egress /\ egress \in [Port -> Interface]
  BY <1>1, <1>2 DEF InEffect, CopyFits, NextIs, EffectInv, TypeOK
<1>6. EgressInEffect(w)'
  <2> SUFFICES ASSUME NEW p \in Port
               PROVE  egress'[p] = Said(EgressAt(q, p), k + 1, ToOf(q), b[p])
    BY <1>2, <1>3 DEF EgressInEffect
  <2>1. egress[p] = Said(EgressAt(q, p), k, ToOf(q), b[p])
    BY <1>2 DEF InEffect, EgressInEffect
  <2>2. egress'[p] = IF x.index = p THEN x.to ELSE egress[p]
    <3> HIDE DEF x
    <3> QED
      BY <1>1, <1>5
  <2>3. Said(EgressAt(q, p), k + 1, ToOf(q), b[p]) =
          IF x.index = p THEN x.to ELSE Said(EgressAt(q, p), k, ToOf(q), b[p])
    <3> HIDE DEF q, k, b, x
    <3> QED
      BY <1>2, OneOn
  <2> QED
    BY <2>1, <2>2, <2>3
<1>7. InEffect(w)'
  BY <1>2, <1>4, <1>6 DEF InEffect
<1>8. port' \in [Port -> SUBSET Feature]
  BY <1>1 DEF EffectInv
<1> QED
  BY <1>2, <1>7, <1>8, EffectBy

\* The first half of an item.
LEMMA HalfDone ==
  ASSUME EffectInv, NEW w \in Writer, NEW op, NextIs(w, op), First(w),
         UNCHANGED <<request, failed, before, bypass, egress, port>>
  PROVE  /\ InPlace(w)' /\ Busy(w)' /\ half'[w] = TRUE
         /\ Past(w)' = Past(w) /\ Item(w)' = Item(w)
         /\ EgressInEffect(w)' /\ BypassInEffect(w)' /\ PortsInEffect(w)'
         /\ \A o \in Writer : o # w => failed'[o] = {}
         /\ DOMAIN failed' = Writer /\ DOMAIN before' = Writer
         /\ port' \in [Port -> SUBSET Feature]
<1>1. /\ InPlace(w) /\ InEffect(w)
      /\ \A o \in Writer : o # w => failed[o] = {}
  BY TheRequest DEF NextIs
<1>2. UNCHANGED todo /\ half'[w] = TRUE
  BY DEF First, EffectInv, TypeOK
<1>3. Past(w)' = Past(w) /\ Item(w)' = Item(w) /\ Items(request[w])' = Items(request[w])
  BY <1>2 DEF Past, Item
<1>4. InPlace(w)' /\ Busy(w)'
  BY <1>1, <1>2 DEF InPlace, Busy, NextIs
<1>5. EgressInEffect(w)'
  BY <1>1, <1>3 DEF InEffect, EgressInEffect
<1>6. BypassInEffect(w)'
  BY <1>1, <1>3 DEF InEffect, BypassInEffect
<1>7. PortsInEffect(w)'
  BY <1>1, <1>3 DEF InEffect, PortsInEffect
<1> QED
  BY <1>1, <1>2, <1>3, <1>4, <1>5, <1>6, <1>7 DEF EffectInv

LEMMA EffectLoad ==
  ASSUME EffectInv, NEW w \in Writer, LoadEgress(w), TypeOK', TurnsTaken'
  PROVE  EffectInv'
<1>1. /\ NextIs(w, "egress") /\ First(w) /\ ~half[w]
      /\ UNCHANGED <<request, failed, before, bypass, egress, port>> /\ UNCHANGED mux
      /\ copy' = [copy EXCEPT ![w] = egress]
  BY DEF LoadEgress, registers
<1>2. /\ InPlace(w)' /\ Busy(w)' /\ half'[w] = TRUE
      /\ Past(w)' = Past(w) /\ Item(w)' = Item(w)
      /\ EgressInEffect(w)' /\ BypassInEffect(w)' /\ PortsInEffect(w)'
      /\ \A o \in Writer : o # w => failed'[o] = {}
      /\ DOMAIN failed' = Writer /\ DOMAIN before' = Writer
      /\ port' \in [Port -> SUBSET Feature]
  BY <1>1, HalfDone
<1>3. CopyFits(w)'
  BY <1>1 DEF CopyFits, EffectInv, TypeOK
<1>4. \A i : MuxPast(w, i) = Past(w) /\ MuxPast(w, i)' = Past(w)
  BY <1>1, <1>2 DEF MuxPast, NextIs
<1>5. MuxInEffect(w)'
  <2>1. MuxInEffect(w)
    BY <1>1, TheRequest DEF InEffect, NextIs
  <2>2. Items(request[w])' = Items(request[w]) /\ before' = before
    BY <1>1
  <2> QED
    BY <1>1, <1>4, <2>1, <2>2 DEF MuxInEffect
<1>6. InEffect(w)'
  BY <1>2, <1>3, <1>5 DEF InEffect
<1> QED
  BY <1>2, <1>6, EffectBy

\* Selecting an interface writes the two multiplexers one after the other.
LEMMA EffectIngress ==
  ASSUME EffectInv, NEW w \in Writer, SetIngress(w), TypeOK', TurnsTaken'
  PROVE  EffectInv'
<1> DEFINE q == Items(request[w])
           k == Past(w)
           x == Item(w)
           b == before[w]
<1>1. /\ NextIs(w, "ingress") /\ UNCHANGED <<request, failed, before>>
      /\ UNCHANGED <<egress, bypass, port>>
      /\ UNCHANGED <<request, failed, before, bypass, egress, port>>
  BY DEF SetIngress
<1>2. x.op = "ingress" /\ x.index \in Port /\ x.intf \in Interface
  BY <1>1, IngressItem DEF NextIs
<1>m. mux \in [Interface -> [Port -> Destination]]
  BY DEF EffectInv, TypeOK
<1>3. CASE ~half[w]
  <2>1. /\ First(w)
        /\ mux' = [mux EXCEPT !["PHYSICAL"][x.index] =
                      IF "PHYSICAL" = x.intf THEN x.to ELSE "DROP"]
    BY <1>3 DEF SetIngress, WriteMux
  <2>2. /\ InPlace(w)' /\ Busy(w)' /\ half'[w] = TRUE
        /\ Past(w)' = Past(w) /\ Item(w)' = Item(w)
        /\ EgressInEffect(w)' /\ BypassInEffect(w)' /\ PortsInEffect(w)'
        /\ \A o \in Writer : o # w => failed'[o] = {}
        /\ DOMAIN failed' = Writer /\ DOMAIN before' = Writer
        /\ port' \in [Port -> SUBSET Feature]
    BY <1>1, <2>1, HalfDone
  <2>3. CopyFits(w)'
    BY <1>2, <2>2 DEF CopyFits
  <2>4. Items(request[w])' = q /\ before'[w] = b
    BY <1>1
  <2>5. /\ \A i : MuxPast(w, i) = k
        /\ \A i : MuxPast(w, i)' = IF i = "PHYSICAL" THEN k + 1 ELSE k
    BY <1>2, <1>3, <2>2 DEF MuxPast
  <2>6. InEffect(w)
    BY <1>1, TheRequest DEF NextIs
  <2>7. IsList(q) /\ k \in Nat /\ k + 1 \in Granted(q) /\ q[k + 1] = x
    <3>1. /\ IsList(q) /\ Place(q, todo[w], failed[w])
          /\ todo[w] # <<>> /\ Acceptable(Head(todo[w]))
      BY <1>1, TheRequest DEF NextIs, InPlace, Item
    <3> HIDE DEF q
    <3>2. /\ Len(q) - Len(todo[w]) \in Nat /\ Len(q) - Len(todo[w]) + 1 \in Granted(q)
          /\ q[Len(q) - Len(todo[w]) + 1] = Head(todo[w])
      BY <3>1, PlaceDone
    <3> QED
      BY <3>1, <3>2 DEF Past, q, Item
  <2>8. ASSUME NEW i \in Interface, NEW p \in Port
        PROVE  mux'[i][p] = Said(MuxAt(q, i, p), MuxPast(w, i)', MuxValue(q, i), b[1][i][p])
    <3>1. mux[i][p] = Said(MuxAt(q, i, p), k, MuxValue(q, i), b[1][i][p])
      BY <2>5, <2>6 DEF InEffect, MuxInEffect
    <3>2. mux'[i][p] = IF i = "PHYSICAL" /\ x.index = p
                       THEN Selects(x, i) ELSE mux[i][p]
      <4> HIDE DEF x
      <4> QED
        BY <1>m, <2>1 DEF Selects
    <3>3. /\ x.index # p =>
               Said(MuxAt(q, i, p), k + 1, MuxValue(q, i), b[1][i][p]) =
                 Said(MuxAt(q, i, p), k, MuxValue(q, i), b[1][i][p])
          /\ x.index = p =>
               Said(MuxAt(q, i, p), k + 1, MuxValue(q, i), b[1][i][p]) = Selects(x, i)
      <4> HIDE DEF q, k, b, x
      <4>1. x.op = "ingress"
        BY <1>2
      <4>2. IsList(q) /\ k \in Nat /\ k + 1 \in Granted(q) /\ q[k + 1] = x
        BY <2>7
      <4> QED
        BY <4>1, <4>2, IngressOn
    <3> QED
      BY <2>5, <3>1, <3>2, <3>3
  <2>9. MuxInEffect(w)'
    BY <2>4, <2>8 DEF MuxInEffect
  <2>10. InEffect(w)'
    BY <2>2, <2>3, <2>9 DEF InEffect
  <2> QED
    BY <2>2, <2>10, EffectBy
<1>4. CASE half[w]
  <2>1. /\ Done(w)
        /\ mux' = [mux EXCEPT !["TEST"][x.index] =
                      IF "TEST" = x.intf THEN x.to ELSE "DROP"]
    BY <1>4 DEF SetIngress, WriteMux
  <2>2. /\ IsList(q) /\ k \in Nat /\ k + 1 \in Granted(q)
        /\ q[k + 1] = x /\ InEffect(w)
        /\ InPlace(w)' /\ Past(w)' = k + 1 /\ \A i : MuxPast(w, i)' = k + 1
        /\ CopyFits(w)' /\ Busy(w)'
        /\ \A o \in Writer : o # w => failed'[o] = {}
        /\ DOMAIN failed' = Writer /\ DOMAIN before' = Writer
    BY <1>1, <2>1, ItemDone
  <2>3. Items(request[w])' = q /\ before'[w] = b
    BY <1>1
  <2>4. EgressInEffect(w)' /\ BypassInEffect(w)' /\ PortsInEffect(w)'
    BY <1>1, <2>1, OthersKept
  <2>5. \A i : MuxPast(w, i) = IF i = "PHYSICAL" THEN k + 1 ELSE k
    BY <1>2, <1>4 DEF MuxPast
  <2>6. ASSUME NEW i \in Interface, NEW p \in Port
        PROVE  mux'[i][p] = Said(MuxAt(q, i, p), k + 1, MuxValue(q, i), b[1][i][p])
    <3>1. mux[i][p] = Said(MuxAt(q, i, p), IF i = "PHYSICAL" THEN k + 1 ELSE k,
                           MuxValue(q, i), b[1][i][p])
      BY <2>2, <2>5 DEF InEffect, MuxInEffect
    <3>2. mux'[i][p] = IF i = "TEST" /\ x.index = p
                       THEN Selects(x, i) ELSE mux[i][p]
      <4> HIDE DEF x
      <4> QED
        BY <1>m, <2>1 DEF Selects
    <3>3. /\ x.index # p =>
               Said(MuxAt(q, i, p), k + 1, MuxValue(q, i), b[1][i][p]) =
                 Said(MuxAt(q, i, p), k, MuxValue(q, i), b[1][i][p])
          /\ x.index = p =>
               Said(MuxAt(q, i, p), k + 1, MuxValue(q, i), b[1][i][p]) = Selects(x, i)
      <4> HIDE DEF q, k, b, x
      <4>1. x.op = "ingress"
        BY <1>2
      <4>2. IsList(q) /\ k \in Nat /\ k + 1 \in Granted(q) /\ q[k + 1] = x
        BY <2>2
      <4> QED
        BY <4>1, <4>2, IngressOn
    <3>4. i = "PHYSICAL" \/ i = "TEST"
      BY DEF Interface
    <3> QED
      BY <3>1, <3>2, <3>3, <3>4
  <2>7. MuxInEffect(w)'
    BY <2>2, <2>3, <2>6 DEF MuxInEffect
  <2>8. InEffect(w)'
    BY <2>2, <2>4, <2>7 DEF InEffect
  <2>9. port' \in [Port -> SUBSET Feature]
    BY <1>1 DEF EffectInv
  <2> QED
    BY <2>2, <2>8, <2>9, EffectBy
<1> QED
  BY <1>3, <1>4

\* What is refused is skipped, and no register changes.
LEMMA EffectRefuse ==
  ASSUME EffectInv, NEW w \in Writer, Refuse(w), TypeOK', TurnsTaken'
  PROVE  EffectInv'
<1> DEFINE q == Items(request[w])
           k == Past(w)
           b == before[w]
           rest == todo[w]
           bad == failed[w]
<1>1. /\ Busy(w) /\ rest # <<>> /\ ~Acceptable(Head(rest))
      /\ UNCHANGED <<request, before, half, copy>>
      /\ UNCHANGED <<mux, egress, bypass, port>>
      /\ failed' = [failed EXCEPT ![w] = @ \cup {Head(rest).unit}]
  BY DEF Refuse, registers, Item
<1>2. PICK n \in DOMAIN rest :
        /\ \A m \in 1 .. n : rest[m].unit = Head(rest).unit
        /\ n < Len(rest) => rest[n + 1].unit # Head(rest).unit
        /\ todo' = [todo EXCEPT ![w] = SubSeq(@, n + 1, Len(@))]
  BY DEF Refuse, Item
<1>3. /\ IsList(q) /\ Grouped(q) /\ Place(q, rest, bad) /\ InEffect(w)
      /\ \A o \in Writer : o # w => failed[o] = {}
  BY <1>1, TheRequest DEF InPlace
<1>4. n \in 1 .. Len(rest)
  BY <1>2, <1>3 DEF Place, IsList
<1>5. ~half[w]
  BY <1>1 DEF EffectInv, TurnsTaken, NextIs, Item
<1>6. /\ todo'[w] = SubSeq(rest, n + 1, Len(rest))
      /\ failed'[w] = bad \cup {Head(rest).unit}
      /\ \A o \in Writer : o # w => failed'[o] = failed[o]
      /\ DOMAIN failed' = Writer
  BY <1>1, <1>2 DEF EffectInv, TypeOK
<1>7. /\ Place(q, todo'[w], failed'[w])
      /\ k \in Nat /\ Len(q) - Len(todo'[w]) = k + n
      /\ \A m \in (k + 1) .. (k + n) : m \notin Granted(q)
  <2>k. k = Len(q) - Len(rest)
    BY DEF Past
  <2>a. rest # <<>> /\ ~Acceptable(Head(rest))
    BY <1>1
  <2>b. /\ \A m \in 1 .. n : rest[m].unit = Head(rest).unit
        /\ n < Len(rest) => rest[n + 1].unit # Head(rest).unit
    BY <1>2
  <2>c. IsList(q) /\ Grouped(q) /\ Place(q, rest, bad)
    BY <1>3
  <2> HIDE DEF q, rest, bad, k
  <2>1. Place(q, SubSeq(rest, n + 1, Len(rest)), bad \cup {Head(rest).unit})
    BY <1>4, <2>a, <2>b, <2>c, PlaceRefused
  <2>2. Len(q) - Len(rest) \in Nat
    BY <1>4, <2>a, <2>b, <2>c, PlaceRefused
  <2>3. Len(q) - Len(SubSeq(rest, n + 1, Len(rest))) = Len(q) - Len(rest) + n
    <3>1. Len(SubSeq(rest, n + 1, Len(rest))) = Len(rest) - n
      BY <1>4, <2>c, ListRest DEF Place
    <3>2. Len(q) \in Nat /\ Len(rest) \in Nat
      BY <2>c DEF Place, IsList
    <3> QED
      BY <1>4, <3>1, <3>2
  <2>4. \A m \in (Len(q) - Len(rest) + 1) .. (Len(q) - Len(rest) + n) : m \notin Granted(q)
    BY <1>4, <2>a, <2>b, <2>c, PlaceRefused
  <2> QED
    BY <1>6, <2>1, <2>2, <2>3, <2>4, <2>k
<1>8. n \in Nat
  BY <1>4
<1>9. Items(request[w])' = q /\ before'[w] = b
  BY <1>1
<1>10. InPlace(w)' /\ Past(w)' = k + n /\ Busy(w)'
  BY <1>1, <1>7, <1>9 DEF InPlace, Past, Busy
<1>11. ~half'[w] /\ (\A i : MuxPast(w, i) = k) /\ \A i : MuxPast(w, i)' = k + n
  BY <1>1, <1>5, <1>10 DEF MuxPast
<1>12. \A S, value, old : S \subseteq Granted(q) =>
         Said(S, k + n, value, old) = Said(S, k, value, old)
  <2> HIDE DEF q, k
  <2> QED
    BY <1>3, <1>7, <1>8, NotSaid
<1>13. MuxInEffect(w)'
  <2>1. MuxInEffect(w)
    BY <1>3 DEF InEffect
  <2>2. \A i, p, old : Said(MuxAt(q, i, p), k + n, MuxValue(q, i), old) =
                         Said(MuxAt(q, i, p), k, MuxValue(q, i), old)
    BY <1>12, SetsGranted
  <2> QED
    BY <1>1, <1>9, <1>11, <2>1, <2>2 DEF MuxInEffect
<1>14. EgressInEffect(w)'
  <2>1. EgressInEffect(w)
    BY <1>3 DEF InEffect
  <2>2. \A p, old : Said(EgressAt(q, p), k + n, ToOf(q), old) =
                      Said(EgressAt(q, p), k, ToOf(q), old)
    BY <1>12, SetsGranted
  <2> QED
    BY <1>1, <1>9, <1>10, <2>1, <2>2 DEF EgressInEffect
<1>15. BypassInEffect(w)'
  <2>1. BypassInEffect(w)
    BY <1>3 DEF InEffect
  <2>2. \A old : Said(BypassAt(q), k + n, ToOf(q), old) =
                   Said(BypassAt(q), k, ToOf(q), old)
    BY <1>12, SetsGranted
  <2> QED
    BY <1>1, <1>9, <1>10, <2>1, <2>2 DEF BypassInEffect
<1>16. PortsInEffect(w)'
  <2>1. PortsInEffect(w)
    BY <1>3 DEF InEffect
  <2>2. \A p, f, old : Said(FeatureAt(q, p, f), k + n, ToOf(q), old) =
                         Said(FeatureAt(q, p, f), k, ToOf(q), old)
    BY <1>12, SetsGranted
  <2> QED
    BY <1>1, <1>9, <1>10, <2>1, <2>2 DEF PortsInEffect
<1>17. CopyFits(w)'
  BY <1>11 DEF CopyFits
<1>18. InEffect(w)'
  BY <1>13, <1>14, <1>15, <1>16, <1>17 DEF InEffect
<1>19. port' \in [Port -> SUBSET Feature] /\ DOMAIN before' = Writer
  BY <1>1 DEF EffectInv
<1> QED
  BY <1>3, <1>6, <1>10, <1>18, <1>19, EffectBy

\* A request notes the registers it finds.
LEMMA EffectBegin ==
  ASSUME Serialized, EffectInv, NEW w \in Writer, Begin(w), TypeOK', TurnsTaken'
  PROVE  EffectInv'
<1>1. PICK r \in Request : /\ request' = [request EXCEPT ![w] = r]
                           /\ todo'    = [todo EXCEPT ![w] = Items(r)]
  BY DEF Begin
<1> DEFINE q == Items(r)
<1>2. /\ \A o \in Writer : ~Busy(o) /\ failed[o] = {}
      /\ before' = [before EXCEPT ![w] = registers]
      /\ UNCHANGED <<failed, half, copy>> /\ UNCHANGED <<mux, egress, bypass, port>>
  BY DEF Begin, EffectInv, registers
<1>3. ~half[w]
  BY <1>2 DEF EffectInv, TurnsTaken, NextIs
<1>4. request'[w] = r /\ todo'[w] = q /\ before'[w] = <<mux, egress, bypass, port>>
  BY <1>1, <1>2 DEF EffectInv, TypeOK, registers
<1>5. IsList(q)
  BY ItemsFacts
<1>6. Place(q, q, {}) /\ Len(q) - Len(q) = 0
  <2> HIDE DEF q
  <2> QED
    BY <1>5, PlaceStart
<1>7. Items(request[w])' = q /\ failed'[w] = {}
  BY <1>2, <1>4
<1>8. InPlace(w)' /\ Past(w)' = 0
  BY <1>4, <1>6, <1>7 DEF InPlace, Past
<1>9. Busy(w)'
  BY <1>4, Kinds DEF Busy
<1>10. ~half'[w] /\ \A i : MuxPast(w, i)' = 0
  BY <1>2, <1>3, <1>8 DEF MuxPast
<1>11. /\ \A i, p, old : Said(MuxAt(q, i, p), 0, MuxValue(q, i), old) = old
       /\ \A p, old : Said(EgressAt(q, p), 0, ToOf(q), old) = old
       /\ \A old : Said(BypassAt(q), 0, ToOf(q), old) = old
       /\ \A p, f, old : Said(FeatureAt(q, p, f), 0, ToOf(q), old) = old
  <2> HIDE DEF q
  <2>1. /\ \A i, p : MuxAt(q, i, p) \subseteq 1 .. Len(q)
        /\ \A p : EgressAt(q, p) \subseteq 1 .. Len(q)
        /\ BypassAt(q) \subseteq 1 .. Len(q)
        /\ \A p, f : FeatureAt(q, p, f) \subseteq 1 .. Len(q)
    BY <1>5, PlacesGranted
  <2> QED
    BY <2>1, SaidNone
<1>12. before'[w][1] = mux /\ before'[w][2] = egress /\ before'[w][3] = bypass
       /\ before'[w][4] = port
  BY <1>4
<1>13. MuxInEffect(w)'
  BY <1>2, <1>7, <1>10, <1>11, <1>12 DEF MuxInEffect
<1>14. EgressInEffect(w)'
  BY <1>2, <1>7, <1>8, <1>11, <1>12 DEF EgressInEffect
<1>15. BypassInEffect(w)'
  BY <1>2, <1>7, <1>8, <1>11, <1>12 DEF BypassInEffect
<1>16. PortsInEffect(w)'
  BY <1>2, <1>7, <1>8, <1>11, <1>12 DEF PortsInEffect
<1>17. InEffect(w)'
  BY <1>10, <1>13, <1>14, <1>15, <1>16 DEF InEffect, CopyFits
<1>18. /\ port' \in [Port -> SUBSET Feature]
       /\ DOMAIN failed' = Writer /\ DOMAIN before' = Writer
       /\ \A o \in Writer : o # w => failed'[o] = {}
  BY <1>2 DEF EffectInv
<1> QED
  BY <1>8, <1>9, <1>17, <1>18, EffectBy

\* A request that ends leaves the registers to the next.
LEMMA EffectRespond ==
  ASSUME EffectInv, NEW w \in Writer, Respond(w), TypeOK', TurnsTaken'
  PROVE  EffectInv'
<1>1. /\ Busy(w) /\ request' = [request EXCEPT ![w] = Idle]
      /\ failed' = [failed EXCEPT ![w] = {}] /\ before' = [before EXCEPT ![w] = <<>>]
      /\ UNCHANGED port
  BY DEF Respond, registers
<1>2. \A o \in Writer : o # w => ~Busy(o) /\ failed[o] = {}
  BY <1>1, TheRequest
<1>3. \A o \in Writer : request'[o] = Idle \/ (request'[o] = request[o] /\ o # w)
  BY <1>1 DEF EffectInv, TypeOK
<1>4. \A o \in Writer : ~Busy(o)'
  BY <1>2, <1>3 DEF Busy
<1>5. \A o \in Writer : failed'[o] = {}
  BY <1>1, <1>2 DEF EffectInv
<1>6. /\ port' \in [Port -> SUBSET Feature]
      /\ DOMAIN failed' = Writer /\ DOMAIN before' = Writer
  BY <1>1 DEF EffectInv
<1> QED
  BY <1>4, <1>5, <1>6 DEF EffectInv

\* Readers write no register, and nothing of a writer.
LEMMA EffectKept ==
  ASSUME EffectInv, UNCHANGED <<registers, writerVars>>, TypeOK', TurnsTaken'
  PROVE  EffectInv'
<1>1. /\ UNCHANGED <<mux, egress, bypass, port>>
      /\ UNCHANGED <<request, todo, half, copy, failed, before>>
  BY DEF registers, writerVars
<1>2. ASSUME NEW w \in Writer PROVE Busy(w)' = Busy(w)
  BY <1>1 DEF Busy
<1>3. ASSUME NEW w \in Writer, InPlace(w) /\ InEffect(w) PROVE InPlace(w)' /\ InEffect(w)'
  <2>1. InPlace(w)' /\ Past(w)' = Past(w) /\ Items(request[w])' = Items(request[w])
    BY <1>1, <1>3 DEF InPlace, Past
  <2>2. \A i : MuxPast(w, i)' = MuxPast(w, i)
    BY <1>1, <2>1 DEF MuxPast, Item
  <2>3. MuxInEffect(w)'
    BY <1>1, <1>3, <2>1, <2>2 DEF InEffect, MuxInEffect
  <2>4. EgressInEffect(w)'
    BY <1>1, <1>3, <2>1 DEF InEffect, EgressInEffect
  <2>5. BypassInEffect(w)'
    BY <1>1, <1>3, <2>1 DEF InEffect, BypassInEffect
  <2>6. PortsInEffect(w)'
    BY <1>1, <1>3, <2>1 DEF InEffect, PortsInEffect
  <2>7. CopyFits(w)'
    BY <1>1, <1>3 DEF InEffect, CopyFits, Item
  <2> QED
    BY <2>1, <2>3, <2>4, <2>5, <2>6, <2>7 DEF InEffect
<1>4. \A w \in Writer : Busy(w)' => InPlace(w)' /\ InEffect(w)'
  BY <1>2, <1>3 DEF EffectInv
<1>5. \A w \in Writer : ~Busy(w)' => failed'[w] = {}
  BY <1>1, <1>2 DEF EffectInv
<1>6. /\ port' \in [Port -> SUBSET Feature]
      /\ DOMAIN failed' = Writer /\ DOMAIN before' = Writer
  BY <1>1 DEF EffectInv
<1> QED
  BY <1>4, <1>5, <1>6 DEF EffectInv

\* EffectInv is inductive.
LEMMA EffectNext ==
  ASSUME Serialized, EffectInv, [Next]_vars PROVE EffectInv'
<1>1. TypeOK' /\ TurnsTaken'
  BY TypeNext, TurnsNext DEF EffectInv
<1>2. ASSUME NEW w \in Writer, Serve(w) PROVE EffectInv'
  BY <1>1, <1>2, EffectBegin, EffectRefuse, EffectIngress, EffectDrop, EffectLoad,
     EffectStore, EffectBypass, EffectFeature, EffectRespond DEF Serve
<1>3. ASSUME NEW r \in Reader, Ask(r) \/ ReadMux(r) \/ Reported(r) PROVE EffectInv'
  <2>1. UNCHANGED <<registers, writerVars>>
    BY <1>3 DEF Ask, ReadMux, Reported
  <2> QED
    BY <1>1, <2>1, EffectKept
<1>4. CASE UNCHANGED vars
  BY <1>1, <1>4, EffectKept DEF vars
<1> QED
  BY <1>2, <1>3, <1>4 DEF Next

LEMMA EffectInit == Init => EffectInv
<1> SUFFICES ASSUME Init PROVE EffectInv
  OBVIOUS
<1>1. \A w \in Writer : ~Busy(w) /\ ~half[w] /\ failed[w] = {}
  BY DEF Init, Busy
<1>2. TurnsTaken
  BY <1>1 DEF TurnsTaken
<1>3. port \in [Port -> SUBSET Feature]
  BY DEF Init
<1>4. DOMAIN failed = Writer /\ DOMAIN before = Writer
  BY DEF Init
<1> QED
  BY <1>1, <1>2, <1>3, <1>4, TypeInit DEF EffectInv

\* While one Set request is at work, the registers hold what its items have
\* written, in their order, on what it found.
THEOREM RegistersFollowTheRequest == ASSUME Serialized PROVE Spec => []EffectInv
<1>1. EffectInv /\ [Next]_vars => EffectInv'
  BY EffectNext
<1> QED
  BY <1>1, EffectInit, PTL DEF Spec

-----------------------------------------------------------------------------
(* The defaults of a card *)

\* All items of the defaults are granted, and each is in its place.
LEMMA DefaultsGranted ==
  ASSUME NEW q, Phased(q, OneToOneSet, 1, 6)
  PROVE  /\ IsList(q) /\ Granted(q) = 1 .. Len(q)
         /\ \A n \in 1 .. Len(q) : q[n] \in OneToOneSet
         /\ \A x \in OneToOneSet : \E n \in Granted(q) : q[n] = x
         /\ \A a, b \in Granted(q) : a <= b => Phase(q[a]) <= Phase(q[b])
<1>1. q \in Seq(OneToOneSet)
  BY DEF Phased
<1>2. IsList(q) /\ Len(q) \in Nat /\ \A n \in 1 .. Len(q) : q[n] \in OneToOneSet
  BY <1>1, SeqIsList
<1>3. DOMAIN q = 1 .. Len(q)
  BY <1>2, ListDomain
<1>4. \A n \in 1 .. Len(q) : Acceptable(q[n])
  BY <1>2, OneToOneItem
<1>5. \A n \in 1 .. Len(q) : \A m \in 1 .. n : m \in 1 .. Len(q)
  BY <1>2
<1>6. Granted(q) = 1 .. Len(q)
  BY <1>3, <1>4, <1>5 DEF Granted
<1> QED
  BY <1>2, <1>6 DEF Phased

\* Before the switch of a card is changed its ports are down and their test
\* interfaces dropped.
LEMMA QuietBefore ==
  ASSUME NEW q, Phased(q, OneToOneSet, 1, 6), NEW k \in Nat, k + 1 \in Granted(q),
         q[k + 1].op \in {"egress", "bypass"}, NEW p \in Port
  PROVE  /\ \A old : Said(MuxAt(q, "TEST", p), k, MuxValue(q, "TEST"), old) = "DROP"
         /\ \A old : Said(FeatureAt(q, p, "enabled"), k, ToOf(q), old) = "off"
<1>1. /\ IsList(q) /\ Granted(q) = 1 .. Len(q) /\ DOMAIN q = 1 .. Len(q)
      /\ \A n \in Granted(q) : q[n] \in OneToOneSet
      /\ \A x \in OneToOneSet : \E n \in Granted(q) : q[n] = x
      /\ \A a, b \in Granted(q) : a <= b => Phase(q[a]) <= Phase(q[b])
  BY DefaultsGranted, ListDomain
<1>2. Phase(q[k + 1]) \in 4 .. 5
  BY DEF Phase
<1>3. ASSUME NEW n \in Granted(q), Phase(q[n]) \in 1 .. 3 PROVE n \in Nat /\ n <= k
  <2>1. n \in Int
    BY <1>1
  <2>2. CASE k + 1 <= n
    <3>1. Phase(q[k + 1]) <= Phase(q[n])
      BY <1>1, <2>2
    <3> QED
      BY <1>2, <1>3, <3>1
  <2> QED
    BY <1>1, <2>1, <2>2
<1>4. ASSUME NEW old
      PROVE  Said(MuxAt(q, "TEST", p), k, MuxValue(q, "TEST"), old) = "DROP"
  <2>1. Drop("TEST", p) \in OneToOneSet
    BY DEF OneToOneSet, DropSet
  <2>2. PICK n \in Granted(q) : q[n] = Drop("TEST", p)
    BY <1>1, <2>1
  <2>3. Phase(q[n]) = 2 /\ n \in MuxAt(q, "TEST", p)
    BY <2>2 DEF Drop, Phase, MuxAt
  <2>4. n <= k /\ MuxAt(q, "TEST", p) \subseteq Nat
    BY <1>1, <1>3, <2>3 DEF MuxAt
  <2>5. PICK l \in MuxAt(q, "TEST", p) :
          Said(MuxAt(q, "TEST", p), k, MuxValue(q, "TEST"), old) = MuxValue(q, "TEST")[l]
    BY <2>3, <2>4, SaidLast
  <2>6. l \in Granted(q) /\ l \in DOMAIN q
    BY <1>1, <2>5 DEF MuxAt
  <2>7. q[l].op = "ingress" => q[l].intf = "PHYSICAL"
    BY <1>1, <2>6, OneToOneItem
  <2>8. MuxValue(q, "TEST")[l] = "DROP"
    BY <2>6, <2>7 DEF MuxValue
  <2> QED
    BY <2>5, <2>8
<1>5. ASSUME NEW old
      PROVE  Said(FeatureAt(q, p, "enabled"), k, ToOf(q), old) = "off"
  <2>1. Feat(0, p, "enabled", "off") \in OneToOneSet
    BY DEF OneToOneSet, DownSet
  <2>2. PICK n \in Granted(q) : q[n] = Feat(0, p, "enabled", "off")
    BY <1>1, <2>1
  <2>3. Phase(q[n]) = 1 /\ n \in FeatureAt(q, p, "enabled")
    BY <2>2 DEF Feat, Phase, FeatureAt
  <2>4. n <= k /\ FeatureAt(q, p, "enabled") \subseteq Nat
    BY <1>1, <1>3, <2>3 DEF FeatureAt
  <2>5. PICK l \in FeatureAt(q, p, "enabled") :
          n <= l /\ l <= k
            /\ Said(FeatureAt(q, p, "enabled"), k, ToOf(q), old) = ToOf(q)[l]
    BY <2>3, <2>4, SaidLast
  <2>6. l \in Granted(q) /\ l \in DOMAIN q /\ l <= k + 1 /\ q[l].op = "feature"
    BY <1>1, <2>4, <2>5 DEF FeatureAt
  <2>7. Phase(q[l]) <= Phase(q[k + 1])
    BY <1>1, <2>6
  <2>8. Phase(q[l]) = IF q[l].to = "off" THEN 1 ELSE 6
    BY <1>1, <2>6, OneToOneItem
  <2>9. q[l].to = "off"
    BY <1>2, <2>7, <2>8
  <2> QED
    BY <2>5, <2>6, <2>9 DEF ToOf
<1> QED
  BY <1>4, <1>5

\* A step that writes the egress selectors or the bypass mode is one of the writer
\* whose item that is.
LEMMA SwitchWritten ==
  ASSUME [Next]_vars, <<egress, bypass>>' # <<egress, bypass>>
  PROVE  \E o \in Writer : NextIs(o, "egress") \/ NextIs(o, "bypass")
<1>1. ~(UNCHANGED egress /\ UNCHANGED bypass)
  OBVIOUS
<1>2. ASSUME NEW o \in Writer, Serve(o) PROVE NextIs(o, "egress") \/ NextIs(o, "bypass")
  BY <1>1, <1>2
     DEF Serve, Begin, Refuse, SetIngress, DropMux, LoadEgress, StoreEgress, SetBypass,
         SetFeature, Respond, registers
<1>3. ASSUME NEW r \in Reader, Ask(r) \/ ReadMux(r) \/ Reported(r) PROVE FALSE
  BY <1>1, <1>3 DEF Ask, ReadMux, Reported, registers
<1>4. ~UNCHANGED vars
  BY <1>1 DEF vars, registers
<1> QED
  BY <1>2, <1>3, <1>4 DEF Next

\* While SetDefaults changes the switch its ports are down and take nothing from
\* their test interfaces (set_defaults_one_to_one, switch_set_defaults_one_to_one).
THEOREM SwitchChangesQuietly ==
  ASSUME Serialized PROVE Spec => DefaultsChangeAQuietSwitch
<1> DEFINE Quiet == \A w \in Writer :
             request[w].kind = "defaults" /\ (<<egress, bypass>>' # <<egress, bypass>>) =>
               \A p \in Port : /\ "enabled" \notin port[p]
                               /\ mux["TEST"][p] = "DROP"
<1>1. ASSUME EffectInv, [Next]_vars PROVE Quiet
  <2> SUFFICES ASSUME NEW w \in Writer, request[w].kind = "defaults",
                      <<egress, bypass>>' # <<egress, bypass>>, NEW p \in Port
               PROVE  "enabled" \notin port[p] /\ mux["TEST"][p] = "DROP"
    OBVIOUS
  <2>1. PICK o \in Writer : NextIs(o, "egress") \/ NextIs(o, "bypass")
    BY <1>1, SwitchWritten
  <2>2. Busy(w) /\ Busy(o) /\ o = w
    BY <1>1, <2>1 DEF Busy, Idle, NextIs, EffectInv, TurnsTaken
  <2> DEFINE q == Items(request[w])
             k == Past(w)
             b == before[w]
  <2>3. request[w] \in Request /\ IsList(q) /\ InPlace(w) /\ InEffect(w)
    BY <1>1, <2>2, TheRequest
  <2>4. todo[w] # <<>> /\ Acceptable(Item(w)) /\ Item(w).op \in {"egress", "bypass"}
    BY <2>1, <2>2 DEF NextIs
  <2>5. k \in Nat /\ k + 1 \in Granted(q) /\ q[k + 1] = Item(w)
    <3>1. Place(q, todo[w], failed[w]) /\ Acceptable(Head(todo[w]))
      BY <2>3, <2>4 DEF InPlace, Item
    <3> HIDE DEF q
    <3>2. /\ Len(q) - Len(todo[w]) \in Nat /\ Len(q) - Len(todo[w]) + 1 \in Granted(q)
          /\ q[Len(q) - Len(todo[w]) + 1] = Head(todo[w])
      BY <2>3, <2>4, <3>1, PlaceDone
    <3> QED
      BY <3>2 DEF Past, q, Item
  <2>6. OneToOne(request[w])
    <3> SUFFICES ASSUME ~OneToOne(request[w]) PROVE FALSE
      OBVIOUS
    <3>1. Len(q) = 1 /\ q[1].op = "refused"
      BY <2>3, ItemsFacts
    <3>2. k + 1 \in 1 .. Len(q)
      BY <2>3, <2>5, ListDomain
    <3>3. k + 1 = 1
      BY <3>1, <3>2
    <3> QED
      BY <2>4, <2>5, <3>1, <3>3
  <2>7. Phased(q, OneToOneSet, 1, 6)
    BY <2>3, <2>6, ItemsFacts
  <2>8. MuxPast(w, "TEST") = k
    BY DEF MuxPast
  <2>9. /\ mux["TEST"][p] = Said(MuxAt(q, "TEST", p), k, MuxValue(q, "TEST"), b[1]["TEST"][p])
        /\ OnOff("enabled", port[p]) =
             Said(FeatureAt(q, p, "enabled"), k, ToOf(q), OnOff("enabled", b[4][p]))
    <3>1. "TEST" \in Interface /\ "enabled" \in Feature
      BY DEF Interface, Feature
    <3>2. MuxInEffect(w) /\ PortsInEffect(w)
      BY <2>3 DEF InEffect
    <3>3. mux["TEST"][p] =
            Said(MuxAt(q, "TEST", p), k, MuxValue(q, "TEST"), b[1]["TEST"][p])
      BY <2>8, <3>1, <3>2 DEF MuxInEffect
    <3>4. OnOff("enabled", port[p]) =
            Said(FeatureAt(q, p, "enabled"), k, ToOf(q), OnOff("enabled", b[4][p]))
      BY <3>1, <3>2 DEF PortsInEffect
    <3> QED
      BY <3>3, <3>4
  <2>10. /\ \A old : Said(MuxAt(q, "TEST", p), k, MuxValue(q, "TEST"), old) = "DROP"
         /\ \A old : Said(FeatureAt(q, p, "enabled"), k, ToOf(q), old) = "off"
    <3>1. q[k + 1].op \in {"egress", "bypass"}
      BY <2>4, <2>5
    <3> HIDE DEF q, k
    <3> QED
      BY <2>5, <2>7, <3>1, QuietBefore
  <2>11. OnOff("enabled", port[p]) = "off"
    BY <2>9, <2>10
  <2> QED
    BY <2>9, <2>10, <2>11 DEF OnOff
<1>2. EffectInv /\ [Next]_vars => [Quiet]_vars
  BY <1>1
<1> QED
  BY <1>2, RegistersFollowTheRequest, PTL DEF Spec, DefaultsChangeAQuietSwitch

-----------------------------------------------------------------------------
(* What a Set request leaves behind *)

\* What is said when all items of a request are done.
LEMMA LastTo ==
  ASSUME NEW q, IsList(q), NEW S, S \subseteq 1 .. Len(q), NEW old
  PROVE  Said(S, Len(q), ToOf(q), old) = IF S = {} THEN old ELSE q[LastOf(S)].to
<1>1. Len(q) \in Nat /\ DOMAIN q = 1 .. Len(q)
  BY ListDomain
<1>2. /\ S = {} => Said(S, Len(q), ToOf(q), old) = old
      /\ S # {} => Said(S, Len(q), ToOf(q), old) = ToOf(q)[LastOf(S)]
      /\ S # {} => LastOf(S) \in S
  <2>1. Upto(S, Len(q)) = S /\ (S # {} => LastOf(S) \in S)
    BY <1>1, SaidAll
  <2> QED
    BY <2>1 DEF Said
<1>3. S # {} => ToOf(q)[LastOf(S)] = q[LastOf(S)].to
  BY <1>1, <1>2 DEF ToOf
<1> QED
  BY <1>2, <1>3

\* What is said of both interfaces of a port, by a request without drops.
LEMMA LastSelector ==
  ASSUME NEW q, NEW p, IsList(q), \A n \in 1 .. Len(q) : q[n].op # "drop"
  PROVE  LET S == SelectorsOf(q, p) IN
         /\ S # {} => q[LastOf(S)].intf \in Interface
         /\ S = {} => \A i, old :
              Said(MuxAt(q, i, p), Len(q), MuxValue(q, i), old) = old
         /\ S # {} => \A i, old :
              Said(MuxAt(q, i, p), Len(q), MuxValue(q, i), old) = Selects(q[LastOf(S)], i)
<1> DEFINE S == SelectorsOf(q, p)
<1>1. Len(q) \in Nat /\ DOMAIN q = 1 .. Len(q) /\ Granted(q) \subseteq 1 .. Len(q)
  BY ListDomain
<1>2. \A i : MuxAt(q, i, p) = S
  BY <1>1 DEF MuxAt, SelectorsOf
<1>3. S \subseteq 1 .. Len(q)
  BY <1>1 DEF SelectorsOf
<1>4. \A l \in S : Acceptable(q[l]) /\ q[l].op = "ingress"
  <2>1. \A l \in S : l \in 1 .. l
    BY <1>3
  <2> QED
    BY <2>1 DEF Granted, SelectorsOf
<1> HIDE DEF S
<1>5. Upto(S, Len(q)) = S /\ (S # {} => LastOf(S) \in S)
  BY <1>1, <1>3, SaidAll
<1>6. S # {} => q[LastOf(S)].intf \in Interface
  BY <1>4, <1>5 DEF Acceptable
<1>7. ASSUME S = {}, NEW i, NEW old
      PROVE  Said(MuxAt(q, i, p), Len(q), MuxValue(q, i), old) = old
  BY <1>2, <1>5, <1>7 DEF Said
<1>8. ASSUME S # {}, NEW i, NEW old
      PROVE  Said(MuxAt(q, i, p), Len(q), MuxValue(q, i), old) = Selects(q[LastOf(S)], i)
  <2>1. Said(MuxAt(q, i, p), Len(q), MuxValue(q, i), old) = MuxValue(q, i)[LastOf(S)]
    BY <1>2, <1>5, <1>8 DEF Said
  <2>2. LastOf(S) \in DOMAIN q /\ q[LastOf(S)].op = "ingress"
    BY <1>1, <1>3, <1>4, <1>5, <1>8
  <2>3. MuxValue(q, i)[LastOf(S)] = Selects(q[LastOf(S)], i)
    BY <2>2 DEF MuxValue, Selects
  <2> QED
    BY <2>1, <2>3
<1> QED
  BY <1>6, <1>7, <1>8 DEF S

\* The last of the places of the defaults comes in the last phase they have.
LEMMA DefaultsLast ==
  ASSUME NEW q, Phased(q, OneToOneSet, 1, 6), NEW S, S \subseteq Granted(q),
         NEW n \in S, NEW value, NEW old
  PROVE  \E l \in S : /\ Said(S, Len(q), value, old) = value[l]
                      /\ l \in DOMAIN q /\ q[l] \in OneToOneSet
                      /\ Phase(q[n]) <= Phase(q[l])
<1>1. /\ IsList(q) /\ Granted(q) = 1 .. Len(q)
      /\ \A a \in 1 .. Len(q) : q[a] \in OneToOneSet
      /\ \A a, b \in Granted(q) : a <= b => Phase(q[a]) <= Phase(q[b])
  BY DefaultsGranted
<1>2. Len(q) \in Nat /\ DOMAIN q = 1 .. Len(q)
  BY <1>1, ListDomain
<1>3. S \subseteq 1 .. Len(q) /\ S # {}
  BY <1>1
<1>4. /\ Said(S, Len(q), value, old) = value[LastOf(S)]
      /\ LastOf(S) \in S /\ n <= LastOf(S)
  <2>1. Upto(S, Len(q)) = S
    BY <1>2, <1>3, SaidAll
  <2>2. LastOf(S) \in S /\ n <= LastOf(S)
    BY <1>2, <1>3, SaidAll
  <2> QED
    BY <1>3, <2>1, <2>2 DEF Said
<1> QED
  BY <1>1, <1>2, <1>3, <1>4

\* What the one-to-one defaults say of each port.
LEMMA DefaultsEnd ==
  ASSUME NEW q, Phased(q, OneToOneSet, 1, 6), NEW p \in Port
  PROVE  /\ \A old : Said(MuxAt(q, "PHYSICAL", p), Len(q), MuxValue(q, "PHYSICAL"), old) = App
         /\ \A old : Said(MuxAt(q, "TEST", p), Len(q), MuxValue(q, "TEST"), old) = "DROP"
         /\ \A old : Said(EgressAt(q, p), Len(q), ToOf(q), old) = "PHYSICAL"
         /\ \A old : Said(FeatureAt(q, p, "enabled"), Len(q), ToOf(q), old) = "on"
         /\ \A old : Said(FeatureAt(q, p, "fec"), Len(q), ToOf(q), old) = "on"
         /\ \A old : Said(FeatureAt(q, p, "loopback"), Len(q), ToOf(q), old) = "off"
         /\ \A old : Said(FeatureAt(q, p, "limited"), Len(q), ToOf(q), old) = old
<1>1. /\ IsList(q) /\ Granted(q) = 1 .. Len(q) /\ DOMAIN q = 1 .. Len(q)
      /\ \A n \in Granted(q) : q[n] \in OneToOneSet
      /\ \A x \in OneToOneSet : \E n \in Granted(q) : q[n] = x
  BY DefaultsGranted, ListDomain
<1>g. /\ \A i : MuxAt(q, i, p) \subseteq Granted(q)
      /\ EgressAt(q, p) \subseteq Granted(q)
      /\ \A f : FeatureAt(q, p, f) \subseteq Granted(q)
  BY SetsGranted
<1>2. ASSUME NEW old
      PROVE  Said(MuxAt(q, "PHYSICAL", p), Len(q), MuxValue(q, "PHYSICAL"), old) = App
  <2>1. Ingress(p, "PHYSICAL", App) \in OneToOneSet
    BY DEF OneToOneSet, InSet
  <2>2. PICK n \in Granted(q) : q[n] = Ingress(p, "PHYSICAL", App)
    BY <1>1, <2>1
  <2>3. n \in MuxAt(q, "PHYSICAL", p) /\ Phase(q[n]) = 3
    BY <2>2 DEF Ingress, Phase, MuxAt
  <2>4. PICK l \in MuxAt(q, "PHYSICAL", p) :
          /\ Said(MuxAt(q, "PHYSICAL", p), Len(q), MuxValue(q, "PHYSICAL"), old)
               = MuxValue(q, "PHYSICAL")[l]
          /\ l \in DOMAIN q /\ q[l] \in OneToOneSet
          /\ Phase(q[n]) <= Phase(q[l])
    BY <1>g, <2>3, DefaultsLast
  <2>5. q[l].op = "ingress" \/ q[l].op = "drop"
    BY DEF MuxAt
  <2>6. q[l].op = "drop" => Phase(q[l]) = 2
    BY DEF Phase
  <2>7. q[l].op = "ingress"
    BY <2>3, <2>4, <2>5, <2>6
  <2>8. q[l].intf = "PHYSICAL" /\ q[l].to = App
    BY <2>4, <2>7, OneToOneItem
  <2> QED
    BY <2>4, <2>7, <2>8 DEF MuxValue
<1>3. ASSUME NEW old
      PROVE  Said(MuxAt(q, "TEST", p), Len(q), MuxValue(q, "TEST"), old) = "DROP"
  <2>1. Drop("TEST", p) \in OneToOneSet
    BY DEF OneToOneSet, DropSet
  <2>2. PICK n \in Granted(q) : q[n] = Drop("TEST", p)
    BY <1>1, <2>1
  <2>3. n \in MuxAt(q, "TEST", p)
    BY <2>2 DEF Drop, MuxAt
  <2>4. PICK l \in MuxAt(q, "TEST", p) :
          /\ Said(MuxAt(q, "TEST", p), Len(q), MuxValue(q, "TEST"), old)
               = MuxValue(q, "TEST")[l]
          /\ l \in DOMAIN q /\ q[l] \in OneToOneSet
    BY <1>g, <2>3, DefaultsLast
  <2>5. q[l].op = "ingress" => q[l].intf = "PHYSICAL"
    BY <2>4, OneToOneItem
  <2> QED
    BY <2>4, <2>5 DEF MuxValue
<1>4. ASSUME NEW old
      PROVE  Said(EgressAt(q, p), Len(q), ToOf(q), old) = "PHYSICAL"
  <2>1. Egress(p, "PHYSICAL") \in OneToOneSet
    BY DEF OneToOneSet, OutSet
  <2>2. PICK n \in Granted(q) : q[n] = Egress(p, "PHYSICAL")
    BY <1>1, <2>1
  <2>3. n \in EgressAt(q, p)
    BY <2>2 DEF Egress, EgressAt
  <2>4. PICK l \in EgressAt(q, p) :
          /\ Said(EgressAt(q, p), Len(q), ToOf(q), old) = ToOf(q)[l]
          /\ l \in DOMAIN q /\ q[l] \in OneToOneSet
    BY <1>g, <2>3, DefaultsLast
  <2>5. q[l].to = "PHYSICAL"
    BY <2>4, OneToOneItem DEF EgressAt
  <2> QED
    BY <2>4, <2>5 DEF ToOf
<1>5. ASSUME NEW f \in {"enabled", "fec"}, NEW old
      PROVE  Said(FeatureAt(q, p, f), Len(q), ToOf(q), old) = "on"
  <2>1. Feat(0, p, f, "on") \in OneToOneSet
    BY DEF OneToOneSet, UpSet
  <2>2. PICK n \in Granted(q) : q[n] = Feat(0, p, f, "on")
    BY <1>1, <2>1
  <2>3. n \in FeatureAt(q, p, f) /\ Phase(q[n]) = 6
    BY <2>2 DEF Feat, Phase, FeatureAt
  <2>4. PICK l \in FeatureAt(q, p, f) :
          /\ Said(FeatureAt(q, p, f), Len(q), ToOf(q), old) = ToOf(q)[l]
          /\ l \in DOMAIN q /\ q[l] \in OneToOneSet
          /\ Phase(q[n]) <= Phase(q[l])
    <3> DEFINE S == FeatureAt(q, p, f)
    <3>1. S \subseteq Granted(q) /\ n \in S
      BY <1>g, <2>3
    <3> HIDE DEF S
    <3>2. \E l \in S : /\ Said(S, Len(q), ToOf(q), old) = ToOf(q)[l]
                       /\ l \in DOMAIN q /\ q[l] \in OneToOneSet
                       /\ Phase(q[n]) <= Phase(q[l])
      BY <3>1, DefaultsLast
    <3> QED
      BY <3>2 DEF S
  <2>5. q[l].op = "feature"
    BY DEF FeatureAt
  <2>6. /\ Phase(q[l]) = IF q[l].to = "off" THEN 1 ELSE 6
        /\ q[l].to = "off" \/ q[l].to = "on"
    BY <2>4, <2>5, OneToOneItem
  <2>7. q[l].to = "on"
    BY <2>3, <2>4, <2>6
  <2> QED
    BY <2>4, <2>7 DEF ToOf
<1>6. ASSUME NEW old
      PROVE  Said(FeatureAt(q, p, "loopback"), Len(q), ToOf(q), old) = "off"
  <2>1. Feat(0, p, "loopback", "off") \in OneToOneSet
    BY DEF OneToOneSet, DownSet
  <2>2. PICK n \in Granted(q) : q[n] = Feat(0, p, "loopback", "off")
    BY <1>1, <2>1
  <2>3. n \in FeatureAt(q, p, "loopback")
    BY <2>2 DEF Feat, FeatureAt
  <2>4. PICK l \in FeatureAt(q, p, "loopback") :
          /\ Said(FeatureAt(q, p, "loopback"), Len(q), ToOf(q), old) = ToOf(q)[l]
          /\ l \in DOMAIN q /\ q[l] \in OneToOneSet
    BY <1>g, <2>3, DefaultsLast
  <2>5. q[l].to = "off"
    BY <2>4, OneToOneItem DEF FeatureAt
  <2> QED
    BY <2>4, <2>5 DEF ToOf
<1>7. ASSUME NEW old
      PROVE  Said(FeatureAt(q, p, "limited"), Len(q), ToOf(q), old) = old
  <2>1. \A n \in Granted(q) : ~(q[n].op = "feature" /\ q[n].what = "limited")
    BY <1>1, OneToOneItem
  <2>2. FeatureAt(q, p, "limited") = {}
    BY <2>1 DEF FeatureAt
  <2> QED
    BY <2>2 DEF Said, Upto
<1> QED
  BY <1>2, <1>3, <1>4, <1>5, <1>6, <1>7

\* What the one-to-one defaults say of the bypass.
LEMMA DefaultsBypass ==
  ASSUME NEW q, Phased(q, OneToOneSet, 1, 6)
  PROVE  \A old : Said(BypassAt(q), Len(q), ToOf(q), old) = "STRAIGHT"
<1> SUFFICES ASSUME NEW old PROVE Said(BypassAt(q), Len(q), ToOf(q), old) = "STRAIGHT"
  OBVIOUS
<1>1. Bypass("STRAIGHT") \in OneToOneSet
  BY DEF OneToOneSet, BypassSet
<1>2. PICK n \in Granted(q) : q[n] = Bypass("STRAIGHT")
  BY <1>1, DefaultsGranted
<1>3. n \in BypassAt(q) /\ BypassAt(q) \subseteq Granted(q)
  BY <1>2 DEF Bypass, BypassAt
<1>4. PICK l \in BypassAt(q) : /\ Said(BypassAt(q), Len(q), ToOf(q), old) = ToOf(q)[l]
                               /\ l \in DOMAIN q /\ q[l] \in OneToOneSet
  BY <1>3, DefaultsLast
<1>5. q[l].to = "STRAIGHT"
  BY <1>4, OneToOneItem DEF BypassAt
<1> QED
  BY <1>4, <1>5 DEF ToOf

\* A writer that ends its request responds.
LEMMA Ends ==
  ASSUME [Next]_vars, TypeOK, NEW w \in Writer, Busy(w), ~Busy(w)'
  PROVE  Respond(w)
<1>1. request' # request
  BY DEF Busy
<1>2. ASSUME NEW o \in Writer, Serve(o) PROVE Respond(w)
  <2>1. Begin(o) \/ Respond(o)
    BY <1>1, <1>2
       DEF Serve, Refuse, SetIngress, DropMux, LoadEgress, StoreEgress, SetBypass, SetFeature
  <2>2. CASE Begin(o)
    <3>1. PICK r \in Request : request' = [request EXCEPT ![o] = r]
      BY <2>2 DEF Begin
    <3>2. request'[w] = r \/ request'[w] = request[w]
      BY <3>1 DEF TypeOK
    <3> QED
      BY <3>2, Kinds DEF Busy
  <2>3. CASE Respond(o)
    <3>1. request' = [request EXCEPT ![o] = Idle]
      BY <2>3 DEF Respond
    <3>2. w # o => request'[w] = request[w]
      BY <3>1 DEF TypeOK
    <3> QED
      BY <2>3, <3>2 DEF Busy
  <2> QED
    BY <2>1, <2>2, <2>3
<1>3. ASSUME NEW r \in Reader, Ask(r) \/ ReadMux(r) \/ Reported(r) PROVE FALSE
  BY <1>1, <1>3 DEF Ask, ReadMux, Reported, writerVars
<1>4. ~UNCHANGED vars
  BY <1>1 DEF vars, writerVars
<1> QED
  BY <1>2, <1>3, <1>4 DEF Next

\* When all its items are done, the registers hold what a request says of them.
LEMMA AllSaid ==
  ASSUME EffectInv, NEW w \in Writer, Busy(w), todo[w] = <<>>
  PROVE  LET q == Items(request[w])
             old == before[w]
         IN  /\ request[w] \in Request /\ IsList(q)
             /\ failed[w] # {} => \E n \in 1 .. Len(q) : ~Acceptable(q[n])
             /\ \A n \in 1 .. Len(q) : ~Acceptable(q[n]) => failed[w] # {}
             /\ \A i \in Interface, p \in Port :
                  mux[i][p] = Said(MuxAt(q, i, p), Len(q), MuxValue(q, i), old[1][i][p])
             /\ \A p \in Port : egress[p] = Said(EgressAt(q, p), Len(q), ToOf(q), old[2][p])
             /\ bypass = Said(BypassAt(q), Len(q), ToOf(q), old[3])
             /\ \A p \in Port, f \in Feature :
                  OnOff(f, port[p]) = Said(FeatureAt(q, p, f), Len(q), ToOf(q),
                                           OnOff(f, old[4][p]))
<1> DEFINE q == Items(request[w])
<1>1. request[w] \in Request /\ IsList(q) /\ InPlace(w) /\ InEffect(w)
  BY TheRequest
<1>2. Place(q, <<>>, failed[w])
  BY <1>1 DEF InPlace
<1>3. /\ Len(q) - Len(<<>>) = Len(q)
      /\ failed[w] # {} => \E n \in 1 .. Len(q) : ~Acceptable(q[n])
      /\ \A n \in 1 .. Len(q) : ~Acceptable(q[n]) => q[n].unit \in failed[w]
  <2> HIDE DEF q
  <2> QED
    BY <1>1, <1>2, PlaceEnd
<1>4. Past(w) = Len(q)
  BY <1>3 DEF Past
<1>5. \A i : MuxPast(w, i) = Len(q)
  BY <1>4 DEF EffectInv, TurnsTaken, NextIs, MuxPast
<1>6. \A i \in Interface, p \in Port :
        mux[i][p] = Said(MuxAt(q, i, p), Len(q), MuxValue(q, i), before[w][1][i][p])
  BY <1>1, <1>5 DEF InEffect, MuxInEffect
<1>7. \A p \in Port : egress[p] = Said(EgressAt(q, p), Len(q), ToOf(q), before[w][2][p])
  BY <1>1, <1>4 DEF InEffect, EgressInEffect
<1>8. bypass = Said(BypassAt(q), Len(q), ToOf(q), before[w][3])
  BY <1>1, <1>4 DEF InEffect, BypassInEffect
<1>9. \A p \in Port, f \in Feature :
        OnOff(f, port[p]) = Said(FeatureAt(q, p, f), Len(q), ToOf(q),
                                 OnOff(f, before[w][4][p]))
  BY <1>1, <1>4 DEF InEffect, PortsInEffect
<1> QED
  BY <1>1, <1>3, <1>6, <1>7, <1>8, <1>9

\* What the defaults of a card leave behind.
LEMMA DefaultsDone ==
  ASSUME EffectInv, NEW w \in Writer, Busy(w), todo[w] = <<>>,
         request[w].kind = "defaults", failed[w] = {}
  PROVE  /\ \A p \in Port : /\ mux["PHYSICAL"][p] = App
                            /\ mux["TEST"][p] = "DROP"
                            /\ egress[p] = "PHYSICAL"
                            /\ port[p] = {"enabled", "fec"}
                                           \cup (before[w][4][p] \cap {"limited"})
         /\ bypass = "STRAIGHT"
<1> DEFINE q == Items(request[w])
           old == before[w]
<1>1. /\ request[w] \in Request /\ IsList(q)
      /\ \A n \in 1 .. Len(q) : ~Acceptable(q[n]) => failed[w] # {}
      /\ \A i \in Interface, p \in Port :
           mux[i][p] = Said(MuxAt(q, i, p), Len(q), MuxValue(q, i), old[1][i][p])
      /\ \A p \in Port : egress[p] = Said(EgressAt(q, p), Len(q), ToOf(q), old[2][p])
      /\ bypass = Said(BypassAt(q), Len(q), ToOf(q), old[3])
      /\ \A p \in Port, f \in Feature :
           OnOff(f, port[p]) = Said(FeatureAt(q, p, f), Len(q), ToOf(q), OnOff(f, old[4][p]))
  BY AllSaid
<1>2. OneToOne(request[w])
  <2> SUFFICES ASSUME ~OneToOne(request[w]) PROVE FALSE
    OBVIOUS
  <2>1. Len(q) = 1 /\ q[1].op = "refused"
    BY <1>1, ItemsFacts
  <2>2. ~Acceptable(q[1]) /\ 1 \in 1 .. Len(q)
    BY <2>1 DEF Acceptable
  <2> QED
    BY <1>1, <2>2
<1>3. Phased(q, OneToOneSet, 1, 6)
  BY <1>1, <1>2, ItemsFacts
<1> HIDE DEF q
<1>i. "PHYSICAL" \in Interface /\ "TEST" \in Interface
  BY DEF Interface
<1>4. bypass = "STRAIGHT"
  BY <1>1, <1>3, DefaultsBypass
<1>5. ASSUME NEW p \in Port
      PROVE  /\ mux["PHYSICAL"][p] = App /\ mux["TEST"][p] = "DROP"
             /\ egress[p] = "PHYSICAL"
             /\ port[p] = {"enabled", "fec"} \cup (old[4][p] \cap {"limited"})
  <2>1. /\ \A o : Said(MuxAt(q, "PHYSICAL", p), Len(q), MuxValue(q, "PHYSICAL"), o) = App
        /\ \A o : Said(MuxAt(q, "TEST", p), Len(q), MuxValue(q, "TEST"), o) = "DROP"
        /\ \A o : Said(EgressAt(q, p), Len(q), ToOf(q), o) = "PHYSICAL"
        /\ \A o : Said(FeatureAt(q, p, "enabled"), Len(q), ToOf(q), o) = "on"
        /\ \A o : Said(FeatureAt(q, p, "fec"), Len(q), ToOf(q), o) = "on"
        /\ \A o : Said(FeatureAt(q, p, "loopback"), Len(q), ToOf(q), o) = "off"
        /\ \A o : Said(FeatureAt(q, p, "limited"), Len(q), ToOf(q), o) = o
    BY <1>3, DefaultsEnd
  <2>2. mux["PHYSICAL"][p] = App /\ mux["TEST"][p] = "DROP" /\ egress[p] = "PHYSICAL"
    BY <1>1, <1>i, <2>1
  <2>3. /\ OnOff("enabled", port[p]) = "on" /\ OnOff("fec", port[p]) = "on"
        /\ OnOff("loopback", port[p]) = "off"
        /\ OnOff("limited", port[p]) = OnOff("limited", old[4][p])
    <3>1. {"enabled", "fec", "loopback", "limited"} \subseteq Feature
      BY DEF Feature
    <3> HIDE DEF old
    <3> QED
      BY <1>1, <2>1, <3>1
  <2>4. /\ "enabled" \in port[p] /\ "fec" \in port[p] /\ "loopback" \notin port[p]
        /\ "limited" \in port[p] <=> "limited" \in old[4][p]
    BY <2>3 DEF OnOff
  <2>5. port[p] \subseteq Feature
    BY DEF EffectInv
  <2>6. port[p] = {"enabled", "fec"} \cup (old[4][p] \cap {"limited"})
    BY <2>4, <2>5 DEF Feature
  <2> QED
    BY <2>2, <2>6
<1> QED
  BY <1>4, <1>5

\* What any other request leaves behind.
LEMMA RequestDone ==
  ASSUME EffectInv, NEW w \in Writer, Busy(w), todo[w] = <<>>,
         ~(request[w].kind = "defaults" /\ failed[w] = {})
  PROVE  LET old == before[w]
             q   == Items(request[w])
         IN  /\ \A p \in Port :
                  /\ InForce(mux, p) =
                       LastWord(q, LAMBDA i : i.op = "ingress" /\ i.index = p,
                                InForce(old[1], p),
                                LAMBDA i : [intf |-> IF i.to = "DROP" THEN "PHYSICAL"
                                                     ELSE i.intf, dest |-> i.to])
                  /\ egress[p] =
                       LastWord(q, LAMBDA i : i.op = "egress" /\ i.index = p,
                                old[2][p], LAMBDA i : i.to)
                  /\ \A f \in Feature :
                       f \in port[p] <=>
                         LastWord(q, LAMBDA i : /\ i.op = "feature"
                                                /\ i.index = p /\ i.what = f,
                                  f \in old[4][p], LAMBDA i : i.to = "on")
             /\ bypass = LastWord(q, LAMBDA i : i.op = "bypass", old[3],
                                  LAMBDA i : i.to)
<1> DEFINE q == Items(request[w])
           old == before[w]
<1>1. /\ request[w] \in Request /\ IsList(q)
      /\ failed[w] # {} => \E n \in 1 .. Len(q) : ~Acceptable(q[n])
      /\ \A i \in Interface, p \in Port :
           mux[i][p] = Said(MuxAt(q, i, p), Len(q), MuxValue(q, i), old[1][i][p])
      /\ \A p \in Port : egress[p] = Said(EgressAt(q, p), Len(q), ToOf(q), old[2][p])
      /\ bypass = Said(BypassAt(q), Len(q), ToOf(q), old[3])
      /\ \A p \in Port, f \in Feature :
           OnOff(f, port[p]) = Said(FeatureAt(q, p, f), Len(q), ToOf(q), OnOff(f, old[4][p]))
  BY AllSaid
<1>2. \A n \in 1 .. Len(q) : q[n].op # "drop"
  <2>1. CASE OneToOne(request[w])
    <3>1. failed[w] # {}
      BY <2>1 DEF OneToOne
    <3>2. Phased(q, OneToOneSet, 1, 6)
      BY <1>1, <2>1, ItemsFacts
    <3>3. \A n \in 1 .. Len(q) : q[n] \in OneToOneSet
      BY <3>2, DefaultsGranted
    <3> QED
      BY <1>1, <3>1, <3>3, OneToOneItem
  <2>2. CASE ~OneToOne(request[w])
    BY <1>1, <2>2, ItemsFacts
  <2> QED
    BY <2>1, <2>2
<1>q. IsList(q)
  BY <1>1
<1>m. \A i \in Interface, p \in Port :
        mux[i][p] = Said(MuxAt(q, i, p), Len(q), MuxValue(q, i), old[1][i][p])
  BY <1>1
<1> HIDE DEF q, old
<1>3. ASSUME NEW p \in Port
      PROVE  InForce(mux, p) =
               LastWord(q, LAMBDA i : i.op = "ingress" /\ i.index = p,
                        InForce(old[1], p),
                        LAMBDA i : [intf |-> IF i.to = "DROP" THEN "PHYSICAL"
                                             ELSE i.intf, dest |-> i.to])
  <2> DEFINE S == SelectorsOf(q, p)
             x == q[LastOf(S)]
  <2>1. /\ S # {} => x.intf \in Interface
        /\ S = {} => \A i, o : Said(MuxAt(q, i, p), Len(q), MuxValue(q, i), o) = o
        /\ S # {} => \A i, o :
             Said(MuxAt(q, i, p), Len(q), MuxValue(q, i), o) = Selects(x, i)
    BY <1>q, <1>2, LastSelector
  <2>2. "PHYSICAL" \in Interface /\ "TEST" \in Interface
    BY DEF Interface
  <2>w. LastWord(q, LAMBDA i : i.op = "ingress" /\ i.index = p,
                 InForce(old[1], p),
                 LAMBDA i : [intf |-> IF i.to = "DROP" THEN "PHYSICAL"
                                      ELSE i.intf, dest |-> i.to])
        = IF S = {} THEN InForce(old[1], p)
          ELSE [intf |-> IF x.to = "DROP" THEN "PHYSICAL" ELSE x.intf, dest |-> x.to]
    BY DEF LastWord, LastOf, SelectorsOf
  <2> HIDE DEF S, x
  <2>3. CASE S = {}
    <3>1. \A i \in Interface : mux[i][p] = old[1][i][p]
      BY <1>m, <2>1, <2>3
    <3>2. InForce(mux, p) = InForce(old[1], p)
      BY <2>2, <3>1 DEF InForce
    <3> QED
      BY <2>w, <2>3, <3>2
  <2>4. CASE S # {}
    <3>1. \A i \in Interface : mux[i][p] = IF x.intf = i THEN x.to ELSE "DROP"
      BY <1>m, <2>1, <2>4 DEF Selects
    <3>2. x.intf = "PHYSICAL" \/ x.intf = "TEST"
      BY <2>1, <2>4 DEF Interface
    <3>3. /\ mux["PHYSICAL"][p] = (IF x.intf = "PHYSICAL" THEN x.to ELSE "DROP")
          /\ mux["TEST"][p] = (IF x.intf = "TEST" THEN x.to ELSE "DROP")
      BY <2>2, <3>1
    <3>4. InForce(mux, p) =
            [intf |-> IF x.to = "DROP" THEN "PHYSICAL" ELSE x.intf, dest |-> x.to]
      BY <3>2, <3>3 DEF InForce
    <3> QED
      BY <2>w, <2>4, <3>4
  <2> QED
    BY <2>3, <2>4
<1>4. ASSUME NEW p \in Port
      PROVE  egress[p] = LastWord(q, LAMBDA i : i.op = "egress" /\ i.index = p,
                                  old[2][p], LAMBDA i : i.to)
  <2> DEFINE S == EgressAt(q, p)
  <2>1. S \subseteq 1 .. Len(q)
    BY <1>1, PlacesGranted
  <2>2. egress[p] = Said(S, Len(q), ToOf(q), old[2][p])
    BY <1>1
  <2> HIDE DEF S
  <2>3. egress[p] = IF S = {} THEN old[2][p] ELSE q[LastOf(S)].to
    <3>1. \A o : Said(S, Len(q), ToOf(q), o) = IF S = {} THEN o ELSE q[LastOf(S)].to
      BY <1>q, <2>1, LastTo
    <3> QED
      BY <2>2, <3>1
  <2> QED
    BY <2>3 DEF LastWord, LastOf, EgressAt, S
<1>5. ASSUME NEW p \in Port, NEW f \in Feature
      PROVE  f \in port[p] <=>
               LastWord(q, LAMBDA i : /\ i.op = "feature"
                                      /\ i.index = p /\ i.what = f,
                        f \in old[4][p], LAMBDA i : i.to = "on")
  <2> DEFINE S == FeatureAt(q, p, f)
  <2>1. S \subseteq 1 .. Len(q)
    BY <1>1, PlacesGranted
  <2>2. OnOff(f, port[p]) = Said(S, Len(q), ToOf(q), OnOff(f, old[4][p]))
    BY <1>1
  <2> HIDE DEF S
  <2>3. OnOff(f, port[p]) = IF S = {} THEN OnOff(f, old[4][p]) ELSE q[LastOf(S)].to
    <3>1. \A o : Said(S, Len(q), ToOf(q), o) = IF S = {} THEN o ELSE q[LastOf(S)].to
      BY <1>q, <2>1, LastTo
    <3> QED
      BY <2>2, <3>1
  <2>4. f \in port[p] <=> IF S = {} THEN f \in old[4][p] ELSE q[LastOf(S)].to = "on"
    BY <2>3 DEF OnOff
  <2> QED
    BY <2>4 DEF LastWord, LastOf, FeatureAt, S
<1>6. bypass = LastWord(q, LAMBDA i : i.op = "bypass", old[3], LAMBDA i : i.to)
  <2> DEFINE S == BypassAt(q)
  <2>1. S \subseteq 1 .. Len(q)
    BY <1>1, PlacesGranted
  <2>2. bypass = Said(S, Len(q), ToOf(q), old[3])
    BY <1>1
  <2> HIDE DEF S
  <2>3. bypass = IF S = {} THEN old[3] ELSE q[LastOf(S)].to
    <3>1. \A o : Said(S, Len(q), ToOf(q), o) = IF S = {} THEN o ELSE q[LastOf(S)].to
      BY <1>q, <2>1, LastTo
    <3> QED
      BY <2>2, <3>1
  <2> QED
    BY <2>3 DEF LastWord, LastOf, BypassAt, S
<1> QED
  BY <1>3, <1>4, <1>5, <1>6 DEF q, old

\* A Set request that takes turns with others leaves every register as its last
\* granted item says, or as it was; defaults leave a card one to one.
THEOREM RequestsTakeEffect ==
  ASSUME Serialized PROVE Spec => RequestTakesEffect
<1> DEFINE Left(w) ==
       LET old == before[w]
           q   == Items(request[w])
       IN  IF request[w].kind = "defaults" /\ failed[w] = {}
           THEN /\ \A p \in Port : /\ mux["PHYSICAL"][p] = App
                                   /\ mux["TEST"][p] = "DROP"
                                   /\ egress[p] = "PHYSICAL"
                                   /\ port[p] = {"enabled", "fec"}
                                                  \cup (old[4][p] \cap {"limited"})
                /\ bypass = "STRAIGHT"
           ELSE /\ \A p \in Port :
                     /\ InForce(mux, p) =
                          LastWord(q, LAMBDA i : i.op = "ingress" /\ i.index = p,
                                   InForce(old[1], p),
                                   LAMBDA i : [intf |-> IF i.to = "DROP" THEN "PHYSICAL"
                                                        ELSE i.intf, dest |-> i.to])
                     /\ egress[p] =
                          LastWord(q, LAMBDA i : i.op = "egress" /\ i.index = p,
                                   old[2][p], LAMBDA i : i.to)
                     /\ \A f \in Feature :
                          f \in port[p] <=>
                            LastWord(q, LAMBDA i : /\ i.op = "feature"
                                                   /\ i.index = p /\ i.what = f,
                                     f \in old[4][p], LAMBDA i : i.to = "on")
                /\ bypass = LastWord(q, LAMBDA i : i.op = "bypass", old[3],
                                     LAMBDA i : i.to)
           Taken == \A w \in Writer : Busy(w) /\ ~Busy(w)' => Left(w)
<1>1. ASSUME EffectInv, [Next]_vars PROVE Taken
  <2> SUFFICES ASSUME NEW w \in Writer, Busy(w), ~Busy(w)' PROVE Left(w)
    OBVIOUS
  <2>1. todo[w] = <<>>
    BY <1>1, Ends DEF EffectInv, Respond
  <2>2. CASE request[w].kind = "defaults" /\ failed[w] = {}
    BY <1>1, <2>1, <2>2, DefaultsDone
  <2>3. CASE ~(request[w].kind = "defaults" /\ failed[w] = {})
    BY <1>1, <2>1, <2>3, RequestDone
  <2> QED
    BY <2>2, <2>3
<1>2. EffectInv /\ [Next]_vars => [Taken]_vars
  BY <1>1
<1> QED
  BY <1>2, RegistersFollowTheRequest, PTL DEF Spec, RequestTakesEffect
=============================================================================
