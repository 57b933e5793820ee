------------------------------- MODULE MCLaunch -------------------------------
(***************************************************************************)
(* Constants for model-checking Graduation: nine tokens of CRIME and FRAUD *)
(* split between curve, conversion vault and pool as the deployed billion  *)
(* is.  Prices, tax and rent are of the size of a token, so that every     *)
(* rounding shows.  Two tokens convert to one PROFIT and back, so that the *)
(* CRIME or FRAUD vault can be emptied and the PROFIT vault cannot, as in  *)
(* the deployment.                                                         *)
(*                                                                         *)
(* A behaviour has one of three parts: in one the scripts crash, in one    *)
(* users convert, and in one they buy and sell one token in amounts of     *)
(* several sizes, over and over.  What a part bounds is listed with it.    *)
(***************************************************************************)
EXTENDS Graduation, TLC

CONSTANT Parts

Supply == [t \in Mint |-> IF t = "PROFIT" THEN 6 ELSE 9]
Seeds == [t \in Mint |-> IF t = "PROFIT" THEN 5 ELSE 2]

VARIABLE part

\* One size of purchase and of sale.
OneSize ==
  \A c \in Token :
    /\ curve'[c].sol_raised \in {curve[c].sol_raised, curve[c].sol_raised + 5}
    /\ sales'[c] = sales[c] \/ curve'[c].tokens_sold = curve[c].tokens_sold - 1

CrashesBound == conversions' = 0 /\ OneSize /\ sales'["CRIME"] + sales'["FRAUD"] <= 1
ConversionsBound ==
  /\ OneSize
  /\ \A c \in Token : sales'[c] = 0
  /\ stops' # stops => emptied # {} /\ ~grad.on
TradesBound == /\ stops' = 0 /\ conversions' = 0
               /\ curve'["FRAUD"].sol_raised = 0

MCInit == InitLaunch /\ part \in Parts
MCNext ==
  /\ LaunchNext
  /\ UNCHANGED part
  /\ part = "crashes" => CrashesBound
  /\ part = "conversions" => ConversionsBound
  /\ part = "trades" => TradesBound

MCSpec == MCInit /\ [][MCNext]_<<launchVars, part>> /\ LaunchFairness
================================================================================
