------------------------------ MODULE MCWorkshop ------------------------------
(* One issue, built twice, and one role name that chat, a review and the    *)
(* command line propose.                                                    *)
EXTENDS Workshop

===============================================================================
