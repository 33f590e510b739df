---------------------------- MODULE MCI2CMaster ----------------------------
(***************************************************************************)
(* A write of init, the first volume, one more register, and a read back.  *)
(***************************************************************************)
EXTENDS I2CMaster

ANA_POWER == 48       \* 0x30

MCScript ==
  << Write(ANA_POWER, <<64, 188>>), Write(ANA_HP_CTRL, <<24, 24>>),
     Read(ANA_HP_CTRL) >>
=============================================================================
