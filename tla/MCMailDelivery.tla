---- MODULE MCMailDelivery ----
(* Two messages from one sender to one recipient. *)
EXTENDS MailDelivery

====
