----------------------------- MODULE MCUsbWrite -----------------------------
(***************************************************************************)
(* UsbWrite on buffers of up to five bytes in transfers of two: buffers    *)
(* that need no, one, two and three transfers, the last one full or not.   *)
(***************************************************************************)
EXTENDS UsbWrite

MCSizes == 0..5
FewSizes == {0, 1, 3}
=============================================================================
