---------------------------- MODULE MCMonitoring ----------------------------
(* Small instances of Monitoring for TLC.                                  *)
EXTENDS Monitoring, TaskMessages

(* Executions 1 and 2 are of the task of one OST, which was sent again.    *)
SameOst == [e \in Executions |-> 1]

Definition(class, mdts, executions) ==
    [class |-> class, mdts |-> mdts, executions |-> executions]

AllClasses == {
    Definition("LustreIOTask", << >>, {1, 2}),
    Definition("LustreAlertIOTask", << >>, {1}),
    Definition("LustreFileCreationCheckTask", << >>, {1}),
    Definition("LustreFileCreationCheckTask", <<1>>, {1, 2}),
    Definition("LustreFileCreationCheckTask", <<1, 2>>, {1})}

-----------------------------------------------------------------------------
(* Task definitions and messages: texts of one and two pieces, classes     *)
(* with no, one, two, 15 and 16 arguments, all definitions of up to two    *)
(* tasks with up to two properties.                                        *)
Plains == {<<"">>, <<"a">>}
Texts  == Plains \union {"", "a"} \X {"", "a"}

Arguments == [None |-> << >>, One |-> <<"x">>, Two |-> <<"x", "y">>,
              Many |-> [k \in 1 .. 15 |-> k], TooMany |-> [k \in 1 .. 16 |-> k]]
Modules   == {"task.m"}

SentTasks ==
    {Task("task.m", "None", tid, << >>) : tid \in Plains}
      \union {Task("task.m", "One", <<"t">>, <<x>>) : x \in Texts}
      \union {Task("task.m", "Two", <<"t">>, <<x, y>>) : x \in Texts, y \in Texts}
      \union {Task("task.m", c, <<"t">>, [k \in DOMAIN Arguments[c] |-> <<"a">>]) :
                 c \in {"Many", "TooMany"}}

Items == {<< >>} \union {<<i>> : i \in {"x", "y"} \X Plains}
           \union ({"x", "y"} \X Plains) \X ({"x", "y"} \X Plains)

Children ==
    [tag : {"task"}, name : {"n", "m"}, module : {"task.m"},
     class : {"None", "One", "Two"}, items : Items]
      \union [tag : {"tusk", "task"}, name : {"n"}, module : {"m"},
              class : {"", "One"}, items : {<< >>}]

SentTasksReadAsWritten ==
    \A task \in SentTasks : task.tid # Empty => ReadAsWritten(task)

MessagesReadAsWritten ==
    \A type \in DOMAIN Fields : \A fields \in [1 .. Fields[type] -> Texts] :
       MessageAsWritten(type, fields)

DefinitionsFollowed ==
    \A c1 \in Children, c2 \in Children :
       PropertiesAreArguments(<<c1, c2>>, "n") /\ PropertiesAreArguments(<<c1>>, "n")

ASSUME TasksGetAcross       == SentTasksReadAsWritten
ASSUME MessagesGetAcross    == MessagesReadAsWritten
ASSUME DefinitionsGetAcross == DefinitionsFollowed
=============================================================================
