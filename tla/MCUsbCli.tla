------------------------------ MODULE MCUsbCli ------------------------------
(***************************************************************************)
(* UsbCli for TLC: the layout that PHASE1_RESULTS.md documents for the     *)
(* M1005, one that lists the interfaces the other way round, and one whose *)
(* printer interface cannot be written to.                                 *)
(***************************************************************************)
EXTENDS UsbCli

Endpoint(address, dir) == [address |-> address, type |-> "bulk", dir |-> dir]

Scanner == [interface |-> 0, class |-> "vendor",
            endpoints |-> <<Endpoint(1, "out"), Endpoint(129, "in"),
                            [Endpoint(131, "in") EXCEPT !.type = "interrupt"]>>]

Printer == [interface |-> 1, class |-> "printer",
            endpoints |-> <<Endpoint(2, "out"), Endpoint(130, "in")>>]

ReadOnly == [Printer EXCEPT !.endpoints = <<Endpoint(130, "in")>>]

MCLayouts == {<<Scanner, Printer>>, <<Printer, Scanner>>,
              <<Scanner, ReadOnly>>}
=============================================================================
