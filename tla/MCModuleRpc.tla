----------------------------- MODULE MCModuleRpc -----------------------------
(* Requests on two modules with pages of three bytes, small enough for TLC. *)
EXTENDS ModuleRpc

CONSTANTS t1, t2

Unnamed == [l \in Line |-> "unknown"]

Mem(ops, mods, offsets, pages, counts) ==
  [op : ops, mod : mods, offset : offsets, page : pages, count : counts,
   gpio : {Unnamed}]

\* Every read of memory, of one module, of both and of one that is not there.
Reads == Mem({"get_mem"}, -1 .. 2, 0 .. Width, Page \cup {Width}, 0 .. Width + 1)

\* Reads that keep within the memory, and those that may not.
Top == Mem({"get_mem"}, {0}, 0 .. Width, {1}, {0, 2, Width})

\* Writes that overlap across the border of the pages, and reads of the same.
Writes == Mem({"set_mem"}, {-1, 0}, {PageSize - 1}, {1}, {0, 2})
            \cup Mem({"get_mem"}, {0}, {PageSize - 1}, {1}, {2})

\* Requests that name one line, and those that depend on the lines.
Names(line, state) == [Unnamed EXCEPT ![line] = state]
Lines == [op : {"set_gpio"}, mod : {-1}, offset : {0}, page : {0}, count : {0},
          gpio : {Names("reset", "assert"), Names("low_power_mode", "deassert")}]
           \cup Mem({"get_gpio", "get_info"}, {-1}, {0}, {0}, {0})
           \cup Mem({"get_status"}, {1}, {0}, {0}, {0})

\* A read beside a request that is refused, or two of the same kind.
Refused == CHOOSE r \in Mem({"get_status"}, {NModules}, {0}, {0}, {0}) : TRUE
Mixed == {[t \in Thread |-> IF t = t1 THEN r ELSE Refused] : r \in Reads}
           \cup [Thread -> Writes] \cup [Thread -> Lines]
AtTop  == [Thread -> Top]

=============================================================================
