------------------------------- MODULE MCRtl --------------------------------
(***************************************************************************)
(* The cores side by side, for one run of TLC: the SPI master, the FEC     *)
(* client, the pipeline control, the serial multiplier, the request and    *)
(* grant machine, and the models of the Reed-Solomon core.  They are not   *)
(* connected.  A behaviour runs one of them, chosen at the start, and the  *)
(* others stay as they are.                                                *)
(***************************************************************************)
EXTENDS SpiFsm, FecClient, SmControl, SerialMult, MCReedSolomon

VARIABLES
  part,    \* the core that runs
  bus_req, bus_done, bus_dly, bus   \* ReqGrant

\* The frame of base_fsm, and scalers that give a half period of one to four
\* clocks.
MCScalers == {0, 2, 5, 7}

\* The operands of the multiplier: the smallest and largest of either sign, and
\* some with alternating bits.
MCAs == {0, 1, 85, 127, 128, 129, 255}
MCBs == {0, 1, 3, 128, 170, 254, 255}

Grant == INSTANCE ReqGrant WITH
  req <- bus_req, done <- bus_done, dly <- bus_dly, state <- bus

grantVars == <<bus_req, bus_done, bus_dly, bus>>
rtlVars   == <<part, vars, fecVars, smVars, multVars, grantVars, rsVars>>

RunsSpi == part = "spi"
RunsGrant == part = "grant"

\* Every core starts as its module says; where one that does not run waits
\* makes no difference, and is fixed.
RtlInit ==
  /\ part \in {"spi", "fec", "sm", "mult", "grant", "rs"}
  /\ RsInit /\ (part # "rs" => model = "xxbm" /\ errors = {})
  /\ Init /\ (~RunsSpi => start /\ clk_scaler = 0)
  /\ FecInit /\ (part # "fec" => place = 0)
  /\ SmInit
  /\ MultInit
  /\ (part # "mult" => multcounter = 0 /\ shiftA = 0 /\ shiftB = 0)
  /\ Grant!Init
  /\ (~RunsGrant => ~bus_req /\ ~bus_done /\ ~bus_dly /\ bus = "IDLE")

RtlNext ==
  \/ /\ RunsSpi /\ UNCHANGED part /\ Next
     /\ UNCHANGED <<fecVars, smVars, multVars, grantVars, rsVars>>
  \/ /\ part = "fec" /\ UNCHANGED part /\ FecNext
     /\ UNCHANGED <<vars, smVars, multVars, grantVars, rsVars>>
  \/ /\ part = "sm" /\ UNCHANGED part /\ SmNext
     /\ UNCHANGED <<vars, fecVars, multVars, grantVars, rsVars>>
  \/ /\ part = "mult" /\ UNCHANGED part /\ MultNext
     /\ UNCHANGED <<vars, fecVars, smVars, grantVars, rsVars>>
  \/ /\ RunsGrant /\ UNCHANGED part /\ Grant!Next
     /\ UNCHANGED <<vars, fecVars, smVars, multVars, rsVars>>
  \/ /\ part = "rs" /\ UNCHANGED part /\ RsNext
     /\ UNCHANGED <<vars, fecVars, smVars, multVars, grantVars>>

\* The clocks of the cores whose modules state it never stop.
RtlSpec ==
  /\ RtlInit /\ [][RtlNext]_rtlVars
  /\ WF_registers(RunsSpi /\ Next)
  /\ WF_bus(RunsGrant /\ Grant!Next)

-----------------------------------------------------------------------------
(***************************************************************************)
(* The types of all, and the property of the module that is instantiated.  *)
(***************************************************************************)
\* The type invariants of all six modules.
RtlTypeOK ==
  /\ TypeOK /\ FecTypeOK /\ SmTypeOK /\ MultTypeOK
  /\ Grant!GrantTypeOK /\ RsTypeOK

\* Request and grant: the bus comes free.
GrantReleased == Grant!GrantReleased
=============================================================================
