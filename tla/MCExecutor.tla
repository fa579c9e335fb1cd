----------------------------- MODULE MCExecutor -----------------------------
(***************************************************************************)
(* The tasks of the kernel in small: task1 and task2 of efi_main that      *)
(* sleep and end, the task of the xHCI driver that spawns the one polling  *)
(* the event ring and then waits, and that one, which yields for ever.     *)
(***************************************************************************)
EXTENDS Executor

MCTasks == {"task1", "task2", "xhci", "events"}
MCLoops == {"events"}
MCAtBoot == <<"xhci", "task1", "task2">>
MCProgram ==
  [t \in MCTasks |->
    CASE t = "task1"  -> << Sleep(0), Sleep(1) >>
      [] t = "task2"  -> << Sleep(2) >>
      [] t = "xhci"   -> << Spawn("events"), Yield, Yield >>
      [] t = "events" -> << Yield >>]
=============================================================================
