------------------------------ MODULE MCSidebar ------------------------------
(* Two projects, one of them there from the start.                         *)
EXTENDS SidebarProperties

MCOrder == <<"api", "web">>
=============================================================================
