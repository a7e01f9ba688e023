----------------------------- MODULE MCTelegram -----------------------------
(* Instances of Telegram for TLC. *)
EXTENDS TelegramProperties, TLC

TwoKeys == "bot" :> "off" @@ "days" :> "off"

OneBad == {<<"days", "A">>}
=============================================================================
