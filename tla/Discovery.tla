----------------------------- MODULE Discovery -----------------------------
(***************************************************************************)
(* Where the two programs that talk to the printer send their data: the    *)
(* searches of m1005_pappl_usb.c (the service) and of m1005_usb.c (the     *)
(* command-line tool) through the active configuration of the device.      *)
(*                                                                         *)
(* A layout is the sequence of the alternate settings of all interfaces,   *)
(* in the order both loops visit them: records of the interface's number,  *)
(* its class and the sequence of its endpoints.                            *)
(***************************************************************************)
EXTENDS Integers, Sequences, FiniteSetsExt

Endpoints ==
  [address : Nat, type : {"control", "isochronous", "bulk", "interrupt"},
   dir : {"in", "out"}]

Settings == [interface : Nat, class : STRING, endpoints : Seq(Endpoints)]

\* No address of an endpoint.  0 is the control endpoint's.
NoEndpoint == 0

Bulk(endpoints, dir) ==
  {e \in DOMAIN endpoints : endpoints[e].type = "bulk" /\ endpoints[e].dir = dir}

\* The alternate settings a program can print through.
Printers(layout) ==
  {a \in DOMAIN layout : /\ layout[a].class = "printer"
                         /\ Bulk(layout[a].endpoints, "out") # {}}

Found(layout, a, out) ==
  [interface |-> layout[a].interface,
   out       |-> layout[a].endpoints[out].address]

\* LIBUSB_ERROR_NOT_FOUND, and what the callers' variables hold then.
NotFound == [interface |-> -1, out |-> NoEndpoint]

\* find_interface of the service leaves both loops at the first setting that
\* will do, with the last of its endpoints.
ServiceFinds(layout) ==
  IF Printers(layout) = {} THEN NotFound
  ELSE LET a == Min(Printers(layout))
       IN  Found(layout, a, Max(Bulk(layout[a].endpoints, "out")))

\* What it reads from: no endpoint of its own is not an error.
ServiceReads(layout) ==
  LET a == Min(Printers(layout))
      ins == Bulk(layout[a].endpoints, "in")
  IN  IF ins = {} THEN NoEndpoint
      ELSE layout[a].endpoints[Max(ins)].address

\* find_printer_interface of the tool leaves the innermost loop only: it ends
\* with the last setting that will do and the first of its endpoints.
ToolFinds(layout) ==
  IF Printers(layout) = {} THEN NotFound
  ELSE LET a == Max(Printers(layout))
       IN  Found(layout, a, Min(Bulk(layout[a].endpoints, "out")))

\* A device that leaves the programs no choice, as the M1005 does.
NoChoice(layout) ==
  /\ \A a, b \in Printers(layout) : a = b
  /\ \A a \in Printers(layout) :
       \A e, f \in Bulk(layout[a].endpoints, "out") : e = f
=============================================================================
