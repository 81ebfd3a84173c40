---- MODULE MCPrinterLink ----
(***************************************************************************)
(* Small instance of PrinterLink for TLC.                                  *)
(***************************************************************************)
EXTENDS PrinterLink, TLC

Shape(kind, via) == [kind |-> kind, via |-> via]

MCAsked == {Shape("status", "lan"), Shape("command", "lan"), Shape("print", "lan"),
            Shape("light", "cloud"), Shape("print", "cloud")}

Slots == Permutations(Tasks)
=============================================================================
